---- MODULE Spec2Model ----
(***************************************************************************)
(* The <i-slide> web component of src/i-slide.js (the class ISlide and the *)
(* module-level cache and registries, lines 1-590), as a state machine.    *)
(*                                                                         *)
(* JavaScript runs one job at a time.  An async function runs up to its    *)
(* next await and is then suspended; its continuation is a microtask,      *)
(* queued when the awaited promise settles (at once when it is already     *)
(* settled).  Microtasks run in FIFO order, and the event loop takes the   *)
(* next task (a timer, a network answer, a load event) only once the       *)
(* microtask queue is empty.  Script of the host page may call a property  *)
(* setter from a task or from a microtask of its own, hence at any point   *)
(* between two jobs.                                                       *)
(*                                                                         *)
(* Every call of #fetchAndRender and every direct call of #render from the *)
(* width setter is an entry of `tasks`; `mq` is the microtask queue.       *)
(***************************************************************************)
EXTENDS Integers, Sequences, FiniteSets, TLC

\* Bounds of the model: how many assignments script makes to the properties
\* of the instances (MaxSets with one instance on the page, PageSets with
\* two), and the size of the decks the server holds.
MaxSets == 3
PageSets == 2
LiveSets == 2
NumSlides == 1
NumPages == 1
FragSets == 2
BoxSets == 3
AttrSets == 3

defaultWidth == 300

Insts == {"i1", "i2"}

\* The value of an absent fragment (slideId after split('#')) and of an
\* absent type attribute.
NoFrag == "undefined"
NoType == "undefined"
PdfType == "application/pdf"

\* A src is kept split the way split('#') splits it.
BaseSrc == [url |-> "base", frag |-> NoFrag]
EmptyValue == [url |-> "", frag |-> NoFrag]
Urls == {"base", "a", "b.pdf"}

\* The characters of a fragment.
Chars(frag) ==
  CASE frag = "1" -> << "1" >>
    [] frag = "2" -> << "2" >>
    [] frag = "0" -> << "0" >>
    [] frag = "45" -> << "4", "5" >>
    [] frag = "page=1" -> << "p", "a", "g", "e", "=", "1" >>
    [] frag = "page=2" -> << "p", "a", "g", "e", "=", "2" >>
    [] frag = "page=" -> << "p", "a", "g", "e", "=" >>
    [] frag = "foo" -> << "f", "o", "o" >>
    [] frag = "1#x" -> << "1", "#", "x" >>
    [] frag = "1x" -> << "1", "x" >>
    [] frag = "cover" -> << "c", "o", "v", "e", "r" >>

\* The value undefined, as the string functions see it.
Undefined == << "undefined" >>

\* The characters of cs that come before the first c.
RECURSIVE Before(_, _)
Before(cs, c) ==
  IF cs = <<>> \/ Head(cs) = c THEN <<>> ELSE << Head(cs) >> \o Before(Tail(cs), c)

\* slideId of `const [docUrl, slideId] = this.#src.split('#')`: the second
\* piece of the src, undefined when the src has no '#'.
SlideId(frag) == IF frag = NoFrag THEN Undefined ELSE Before(Chars(frag), "#")

Digits == {"0", "1", "2", "3", "4", "5", "6", "7", "8", "9"}
DigitValue(c) ==
  CASE c = "0" -> 0 [] c = "1" -> 1 [] c = "2" -> 2 [] c = "3" -> 3 [] c = "4" -> 4
    [] c = "5" -> 5 [] c = "6" -> 6 [] c = "7" -> 7 [] c = "8" -> 8 [] c = "9" -> 9

\* The longest prefix of cs made of digits.
RECURSIVE DigitPrefix(_)
DigitPrefix(cs) ==
  IF cs = <<>> \/ Head(cs) \notin Digits THEN <<>>
  ELSE << Head(cs) >> \o DigitPrefix(Tail(cs))

\* The number a sequence of digits denotes in base 10.
RECURSIVE Decimal(_)
Decimal(ds) ==
  IF ds = <<>> THEN 0 ELSE 10 * Decimal(SubSeq(ds, 1, Len(ds) - 1)) + DigitValue(ds[Len(ds)])

\* What parseInt(string, 10) computes: an optional sign and the digits that
\* follow it; 0 stands for NaN.
ParseIntOf(cs) ==
  LET signed == cs # <<>> /\ Head(cs) \in {"+", "-"}
      ds == DigitPrefix(IF signed THEN Tail(cs) ELSE cs)
  IN IF ds = <<>> THEN 0
     ELSE IF signed /\ Head(cs) = "-" THEN 0 - Decimal(ds) ELSE Decimal(ds)

\* The decimal numeral of a natural number: what String(n) yields.
RECURSIVE Numeral(_)
Numeral(n) ==
  LET digit == << "0", "1", "2", "3", "4", "5", "6", "7", "8", "9" >>
      d == digit[(n % 10) + 1]
  IN IF n < 10 THEN << d >> ELSE Numeral(n \div 10) \o << d >>

\* The values script passes to the width setter: numbers, strings and null.
Num(n) == [t |-> "number", n |-> n]
Str(cs) == [t |-> "string", cs |-> cs]
NullValue == [t |-> "null"]

\* '' + value.
StringOf(v) ==
  CASE v.t = "number" -> Numeral(v.n)
    [] v.t = "string" -> v.cs
    [] v.t = "null" -> << "n", "u", "l", "l" >>

\* What getAttribute returns for an attribute the element does not have.
Absent == << "(null)" >>
AbsentType == "(null)"
AbsentSrc == [url |-> "(null)", frag |-> NoFrag]

\* The values script assigns.
SrcValues ==
  { [url |-> "a", frag |-> "1"], [url |-> "a", frag |-> "2"],
    [url |-> "b.pdf", frag |-> "1"] }

\* The values script assigns to the src of an instance that shows a PDF deck.
PdfFragments ==
  {NoFrag, "1", "2", "0", "45", "page=1", "page=2", "page=", "foo", "1#x"}
PdfSrcValues == { [url |-> "b.pdf", frag |-> f] : f \in PdfFragments }

\* The values script assigns to the src of an instance that shows an HTML
\* deck whose first slide has the identifier "cover".
HtmlFragments == {NoFrag, "1", "2", "0", "45", "cover", "foo", "1x"}
HtmlSrcValues == { [url |-> "a", frag |-> f] : f \in HtmlFragments }
WidthValues == {Num(defaultWidth), Num(500)}

\* The values script gives to the properties and to the width attribute of
\* an element, among them the empty string, a string that is no URL and
\* strings that hold no number.
BadUrl == [url |-> "http://[", frag |-> NoFrag]
AttrSrcValues == { [url |-> "./a", frag |-> "1"], EmptyValue, BadUrl }
AttrWidthValues == { Num(500), Str(<< "a", "b", "c" >>) }
AttrWidthTexts == { Numeral(500), <<>> }

\* The src, width and height attributes of an element given a box.
BoxSrcValues == { [url |-> "a", frag |-> "1"], [url |-> "b.pdf", frag |-> "1"] }
BoxWidths == { Numeral(600), Numeral(144) }
BoxHeights == { Numeral(144), Numeral(400) }
TypeValues == {PdfType}

\* The strings that the values above make the program hand to parseInt,
\* with what parseInt computes for each of them.
Texts ==
  { SlideId(v.frag) : v \in SrcValues \cup PdfSrcValues \cup HtmlSrcValues \cup BoxSrcValues }
    \cup { StringOf(v) : v \in WidthValues \cup AttrWidthValues \cup {NullValue} }
    \cup AttrWidthTexts \cup BoxWidths \cup BoxHeights \cup {Absent}
Parsed == [cs \in Texts |-> ParseIntOf(cs)]

\* parseInt(string, 10).
ParseInt(cs) == IF cs \in Texts THEN Parsed[cs] ELSE ParseIntOf(cs)

\* What the server and the network answer to fetch(docUrl).
Responses == {"neterr", "404", "html", "pdf", "octet"}

\* What clientWidth/clientHeight read: the slide's box, or 0 when the host
\* element generates no box (hidden, or not in the document).
Readings == {<<0, 0>>, <<1024, 640>>, <<800, 600>>}

NoTask == <<"-", "-", 0>>
LibPromise == <<"-", "PDFScriptsLoaded", 0>>

VARIABLES
  src, width, type,          \* #src, #width, #type of each instance
  attrs,                     \* the src, width, type and height attributes
  renderCyclePlanned,        \* #renderCyclePlanned
  renderCycleID,             \* #renderCycleID
  renderPossible,            \* #renderPossible: NoTask when the promise is
                             \* resolved, else the render that created it
  loaded, ariaBusy,          \* the loaded field and the aria-busy attribute
  shadowRoot,                \* the children of the shadow root, in order
  cache,                     \* cache[docUrl]
  pendingFetch,              \* pendingFetch[docUrl]: the task whose promise it holds
  pendingDimensions,         \* pendingDimensions[docUrl], likewise
  PDFScriptsHandled,
  PDFScriptsLoaded,          \* progress of #loadPDFScripts
  timers,                    \* setTimeout callbacks not yet run, per instance
  tasks,                     \* the suspended async calls, oldest suspension first
  mq,                        \* the microtask queue (ids of tasks)
  budget,                    \* assignments script may still make
  page,                      \* the instances in the document
  fetchCount,                \* history: calls of fetch(docUrl)
  measureCount,              \* history: measurement passes started per docUrl
  loadLog,                   \* history: cycle ids that dispatched load
  supTo                      \* history: highest cycle id that was unsettled
                             \* when src or type changed

vars ==
  << src, width, type, attrs, renderCyclePlanned, renderCycleID, renderPossible,
     loaded, ariaBusy, shadowRoot, cache, pendingFetch, pendingDimensions,
     PDFScriptsHandled, PDFScriptsLoaded, timers, tasks, mq, budget, page,
     fetchCount, measureCount, loadLog, supTo >>

instVars == << src, width, type, attrs, renderCyclePlanned, renderCycleID, loaded, ariaBusy >>
pdfVars == << PDFScriptsHandled, PDFScriptsLoaded >>
histVars == << fetchCount, measureCount, loadLog, supTo >>

----------------------------------------------------------------------------
\* Tasks

Range(s) == { s[k] : k \in DOMAIN s }
Ids(ts) == [k \in DOMAIN ts |-> ts[k].id]
Live(id) == \E t \in Range(tasks) : t.id = id
Task(id) == CHOOSE t \in Range(tasks) : t.id = id
Others(id) == SelectSeq(tasks, LAMBDA t : t.id # id)
InstOf(t) == t.id[1]
IsCycle(t) == t.id[2] = "c"
CycleOf(t) == t.id[3]

\* type0 is history: the type hint in force when the call started.
NewTask(id) ==
  [id |-> id, pc |-> "new", url |-> "", frag |-> NoFrag, w |-> 0,
   wait |-> NoTask, holds |-> FALSE, type0 |-> NoType]

\* The tasks suspended at program point pc on the promise that `owner` created.
WaitersOf(ts, owner, pc) ==
  Ids(SelectSeq(ts, LAMBDA t : t.wait = owner /\ t.pc = pc))
Woken(ts, owner, pc) ==
  [k \in DOMAIN ts |->
     IF ts[k].wait = owner /\ ts[k].pc = pc
       THEN [ts[k] EXCEPT !.wait = NoTask] ELSE ts[k]]

Max(S) == CHOOSE x \in S : \A y \in S : y <= x
LiveCycleMax(i) ==
  Max({0} \cup { CycleOf(t) : t \in { u \in Range(tasks) : InstOf(u) = i /\ IsCycle(u) } })

\* The state after construction of the instances p of the page; b is the
\* number of assignments script will make to their properties.
InitWith(p, b) ==
  /\ src = [i \in Insts |-> BaseSrc]
  /\ width = [i \in Insts |-> defaultWidth]
  /\ type = [i \in Insts |-> NoType]
  /\ attrs = [i \in Insts |->
                [src |-> AbsentSrc, width |-> Absent, type |-> AbsentType, height |-> Absent]]
  /\ renderCyclePlanned = [i \in Insts |-> FALSE]
  /\ renderCycleID = [i \in Insts |-> 0]
  /\ renderPossible = [i \in Insts |-> NoTask]
  /\ loaded = [i \in Insts |-> FALSE]
  /\ ariaBusy = [i \in Insts |-> "unset"]
  /\ shadowRoot = [i \in Insts |-> <<>>]
  /\ cache = [u \in Urls |-> [kind |-> "none", by |-> NoTask, dims |-> <<0, 0>>]]
  /\ pendingFetch = [u \in Urls |-> NoTask]
  /\ pendingDimensions = [u \in Urls |-> NoTask]
  /\ PDFScriptsHandled = FALSE
  /\ PDFScriptsLoaded = "pending"
  /\ timers = [i \in Insts |-> 0]
  /\ tasks = <<>>
  /\ mq = <<>>
  /\ budget = b
  /\ page = p
  /\ fetchCount = [u \in Urls |-> 0]
  /\ measureCount = [u \in Urls |-> 0]
  /\ loadLog = [i \in Insts |-> <<>>]
  /\ supTo = [i \in Insts |-> 0]

\* Two instances on the page.
Init == InitWith(Insts, PageSets)

\* One instance on the page.
InitOne == InitWith({"i1"}, MaxSets)
InitLive == InitWith({"i1"}, LiveSets)

----------------------------------------------------------------------------
\* A caller that leaves out the call of #loadPDFScripts.
LoadPDFScriptsNever(called) == UNCHANGED pdfVars

\* #loadPDFScripts without the test of PDFScriptsHandled: every caller
\* starts loading the scripts.
LoadPDFScriptsEach(called) ==
  IF called
    THEN PDFScriptsHandled' = TRUE /\ PDFScriptsLoaded' = "script1"
    ELSE UNCHANGED pdfVars

\* #loadPDFScripts up to its first await: the first caller starts loading
\* the first script, later callers return at once.
LoadPDFScripts(called) ==
  IF called /\ ~PDFScriptsHandled
    THEN PDFScriptsHandled' = TRUE /\ PDFScriptsLoaded' = "script1"
    ELSE UNCHANGED pdfVars

\* A src or type change made while a cycle has not settled supersedes it.
Supersede(i, changed) ==
  supTo' = IF changed /\ LiveCycleMax(i) > supTo[i]
             THEN [supTo EXCEPT ![i] = LiveCycleMax(i)] ELSE supTo

\* Schedule without the test of #renderCyclePlanned: one timer per change.
ScheduleEach(i, changed) ==
  IF changed
    THEN /\ renderCyclePlanned' = [renderCyclePlanned EXCEPT ![i] = TRUE]
         /\ timers' = [timers EXCEPT ![i] = @ + 1]
    ELSE UNCHANGED << renderCyclePlanned, timers >>

\* The end of the src and type setters: a cycle on next tick, unless planned.
Schedule(i, changed) ==
  IF changed /\ ~renderCyclePlanned[i]
    THEN /\ renderCyclePlanned' = [renderCyclePlanned EXCEPT ![i] = TRUE]
         /\ timers' = [timers EXCEPT ![i] = @ + 1]
    ELSE UNCHANGED << renderCyclePlanned, timers >>

\* new URL(value, this.baseURI) throws.
Unparseable(value) == value.url = "http://["

\* A src setter that stores the value as written.
HrefAsWritten(value) == value

\* new URL(value, this.baseURI).href: a relative reference is resolved
\* against the base URI ("a" and "b.pdf" name absolute URLs).
Href(value) ==
  [url |-> CASE value.url = "./a" -> "a" [] value.url = "./b.pdf" -> "b.pdf"
             [] OTHER -> value.url,
   frag |-> value.frag]

\* #src after the setter: the base URI for the empty string and for a value
\* that is no URL.
ResolveSrc(value) ==
  IF value = EmptyValue \/ Unparseable(value) THEN BaseSrc ELSE Href(value)

\* The src setter, called by an assignment to the property or by
\* attributeChangedCallback after setAttribute('src', value): either way the
\* attribute ends up holding value, or '' when value is no URL.
SetSrc(i, value) ==
  /\ i \in page /\ budget > 0
  /\ budget' = budget - 1
  /\ src' = [src EXCEPT ![i] = ResolveSrc(value)]
  /\ attrs' = [attrs EXCEPT ![i].src = IF Unparseable(value) THEN EmptyValue ELSE value]
  /\ Schedule(i, src'[i] # src[i])
  /\ Supersede(i, src'[i] # src[i])
  /\ UNCHANGED << width, type, renderCycleID, renderPossible, loaded, ariaBusy,
                  shadowRoot, cache, pendingFetch, pendingDimensions, pdfVars,
                  tasks, mq, page, fetchCount, measureCount, loadLog >>

\* The type setter, called by an assignment or by attributeChangedCallback.
SetType(i, value) ==
  /\ i \in page /\ budget > 0
  /\ budget' = budget - 1
  /\ type' = [type EXCEPT ![i] = value]
  /\ attrs' = [attrs EXCEPT ![i].type = value]
  /\ LoadPDFScripts(value = PdfType)
  /\ Schedule(i, type'[i] # type[i])
  /\ Supersede(i, type'[i] # type[i])
  /\ UNCHANGED << src, width, renderCycleID, renderPossible, loaded, ariaBusy,
                  shadowRoot, cache, pendingFetch, pendingDimensions,
                  tasks, mq, page, fetchCount, measureCount, loadLog >>

----------------------------------------------------------------------------
\* #render up to `await this.#renderPossible`, for task t; rest are the other
\* tasks and q the microtask queue t is not in.
RenderEnter(t, rest, q) ==
  LET i == InstOf(t) IN
  /\ tasks' = Append(rest, [t EXCEPT !.pc = "renderWait", !.wait = renderPossible[i]])
  /\ mq' = IF renderPossible[i] = NoTask THEN Append(q, t.id) ELSE q

\* The smallest number no direct render of instance i is using.
FreeRender(i) ==
  CHOOSE n \in 1..(Len(tasks) + 1) :
    /\ ~Live(<<i, "r", n>>)
    /\ \A m \in 1..(n - 1) : Live(<<i, "r", m>>)

\* A width setter that ends like the src and type setters.
SetWidthCycle(i, value) ==
  /\ i \in page /\ budget > 0
  /\ budget' = budget - 1
  /\ width' = [width EXCEPT ![i] = ParseInt(StringOf(value))]
  /\ attrs' = [attrs EXCEPT ![i].width = StringOf(value)]
  /\ Schedule(i, width'[i] # width[i])
  /\ UNCHANGED << src, type, renderCycleID, renderPossible, loaded, ariaBusy,
                  shadowRoot, cache, pendingFetch, pendingDimensions, pdfVars,
                  tasks, mq, page, histVars >>

\* n direct calls of #render by the width setter of instance i, each up to
\* `await this.#renderPossible`.
DirectRenders(i, n) ==
  LET first == FreeRender(i)
      second == CHOOSE m \in 1..(Len(tasks) + 2) :
                  /\ m > first /\ ~Live(<<i, "r", m>>)
                  /\ \A k \in (first + 1)..(m - 1) : Live(<<i, "r", k>>)
      t1 == NewTask(<<i, "r", first>>)
      t2 == [NewTask(<<i, "r", second>>) EXCEPT !.pc = "renderWait", !.wait = renderPossible[i]]
  IN
  CASE n = 0 -> UNCHANGED << tasks, mq >>
    [] n = 1 -> RenderEnter(t1, tasks, mq)
    [] n = 2 -> /\ tasks' = Append(Append(tasks,
                      [t1 EXCEPT !.pc = "renderWait", !.wait = renderPossible[i]]), t2)
                /\ mq' = IF renderPossible[i] = NoTask
                           THEN mq \o << t1.id, t2.id >> ELSE mq

\* A width setter that calls #render whenever the width changed.
WidthSetterUnguarded(i, value, attribute) ==
  LET cs == StringOf(value)
      w == ParseInt(cs)
  IN
  /\ i \in page /\ budget > 0
  /\ budget' = budget - 1
  /\ width' = [width EXCEPT ![i] = w]
  /\ attrs' = [attrs EXCEPT ![i].width = cs]
  /\ DirectRenders(i, IF w = 0 \/ w # width[i] THEN 1 ELSE 0)
  /\ UNCHANGED << src, type, renderCyclePlanned, renderCycleID, renderPossible,
                  loaded, ariaBusy, shadowRoot, cache, pendingFetch,
                  pendingDimensions, pdfVars, timers, page, histVars >>

\* The width setter, for the value it is called with and for what
\* getAttribute('width') returns when it is called.  parseInt never throws:
\* a value with no leading number is stored as NaN (0 stands for NaN: no
\* value the model assigns parses to 0), and NaN differs from every old
\* value.  If the attribute differs from the string the setter sets it, and
\* attributeChangedCallback calls the setter once more, with #width as its
\* old value, before the outer call reaches its test.
WidthSetter(i, value, attribute) ==
  LET cs == StringOf(value)
      w == ParseInt(cs)
      outer == w = 0 \/ w # width[i]
      inner == attribute # cs /\ w = 0
      calls == IF ~renderCyclePlanned[i] /\ renderCycleID[i] > 0
                 THEN (IF outer THEN 1 ELSE 0) + (IF inner THEN 1 ELSE 0)
                 ELSE 0
  IN
  /\ i \in page /\ budget > 0
  /\ budget' = budget - 1
  /\ width' = [width EXCEPT ![i] = w]
  /\ attrs' = [attrs EXCEPT ![i].width = cs]
  /\ DirectRenders(i, calls)
  /\ UNCHANGED << src, type, renderCyclePlanned, renderCycleID, renderPossible,
                  loaded, ariaBusy, shadowRoot, cache, pendingFetch,
                  pendingDimensions, pdfVars, timers, page, histVars >>

\* el.width = value.
SetWidth(i, value) == WidthSetter(i, value, attrs[i].width)

\* el.setAttribute('width', cs): attributeChangedCallback calls the setter.
SetWidthAttribute(i, cs) == WidthSetter(i, Str(cs), cs)

\* el.removeAttribute('width'): attributeChangedCallback calls the setter
\* with null.
RemoveWidthAttribute(i) ==
  /\ attrs[i].width # Absent
  /\ WidthSetter(i, NullValue, Absent)

\* el.setAttribute('height', cs): the attribute is not observed.
SetHeightAttribute(i, cs) ==
  /\ i \in page /\ budget > 0
  /\ budget' = budget - 1
  /\ attrs' = [attrs EXCEPT ![i].height = cs]
  /\ UNCHANGED << src, width, type, renderCyclePlanned, renderCycleID, renderPossible,
                  loaded, ariaBusy, shadowRoot, cache, pendingFetch,
                  pendingDimensions, pdfVars, timers, tasks, mq, page, histVars >>

----------------------------------------------------------------------------
\* #fetch without the test of pendingFetch[docUrl].
FetchNoPending(t, rest, q, fromTop) ==
  IF cache[t.url].kind # "none"
    THEN /\ tasks' = Append(rest, [t EXCEPT !.pc = "afterFetch", !.wait = NoTask])
         /\ mq' = Append(q, t.id)
         /\ UNCHANGED << pendingFetch, fetchCount >>
    ELSE /\ tasks' = Append(rest, [t EXCEPT !.pc = "fetching", !.wait = NoTask])
         /\ mq' = q
         /\ pendingFetch' = [pendingFetch EXCEPT ![t.url] = t.id]
         /\ fetchCount' = [fetchCount EXCEPT ![t.url] = @ + 1]

\* #fetch that takes a cached error for no entry.
FetchRetriesErrors(t, rest, q, fromTop) ==
  IF fromTop /\ pendingFetch[t.url] # NoTask
    THEN /\ tasks' = Append(rest, [t EXCEPT !.pc = "fetchWait", !.wait = pendingFetch[t.url]])
         /\ mq' = q
         /\ UNCHANGED << pendingFetch, fetchCount >>
    ELSE IF cache[t.url].kind \notin {"none", "error"}
    THEN /\ tasks' = Append(rest, [t EXCEPT !.pc = "afterFetch", !.wait = NoTask])
         /\ mq' = Append(q, t.id)
         /\ UNCHANGED << pendingFetch, fetchCount >>
    ELSE /\ tasks' = Append(rest, [t EXCEPT !.pc = "fetching", !.wait = NoTask])
         /\ mq' = q
         /\ pendingFetch' = [pendingFetch EXCEPT ![t.url] = t.id]
         /\ fetchCount' = [fetchCount EXCEPT ![t.url] = @ + 1]

\* #fetch without the test of cache[docUrl].
FetchNoCache(t, rest, q, fromTop) ==
  IF fromTop /\ pendingFetch[t.url] # NoTask
    THEN /\ tasks' = Append(rest, [t EXCEPT !.pc = "fetchWait", !.wait = pendingFetch[t.url]])
         /\ mq' = q
         /\ UNCHANGED << pendingFetch, fetchCount >>
    ELSE /\ tasks' = Append(rest, [t EXCEPT !.pc = "fetching", !.wait = NoTask])
         /\ mq' = q
         /\ pendingFetch' = [pendingFetch EXCEPT ![t.url] = t.id]
         /\ fetchCount' = [fetchCount EXCEPT ![t.url] = @ + 1]

\* #fetch from its first line (or, for a caller resumed from
\* `await pendingFetch[docUrl]`, from the cache test) up to its next await.
FetchFrom(t, rest, q, fromTop) ==
  IF fromTop /\ pendingFetch[t.url] # NoTask
    THEN /\ tasks' = Append(rest, [t EXCEPT !.pc = "fetchWait", !.wait = pendingFetch[t.url]])
         /\ mq' = q
         /\ UNCHANGED << pendingFetch, fetchCount >>
    ELSE IF cache[t.url].kind # "none"
    THEN /\ tasks' = Append(rest, [t EXCEPT !.pc = "afterFetch", !.wait = NoTask])
         /\ mq' = Append(q, t.id)
         /\ UNCHANGED << pendingFetch, fetchCount >>
    ELSE /\ tasks' = Append(rest, [t EXCEPT !.pc = "fetching", !.wait = NoTask])
         /\ mq' = q
         /\ pendingFetch' = [pendingFetch EXCEPT ![t.url] = t.id]
         /\ fetchCount' = [fetchCount EXCEPT ![t.url] = @ + 1]

\* #fetchAndRender with cycleId = this.#renderCycleID++.
FetchAndRenderPostIncrement(i) ==
  /\ timers[i] > 0
  /\ mq = <<>>
  /\ timers' = [timers EXCEPT ![i] = @ - 1]
  /\ renderCycleID' = [renderCycleID EXCEPT ![i] = @ + 1]
  /\ renderCyclePlanned' = [renderCyclePlanned EXCEPT ![i] = FALSE]
  /\ ariaBusy' = [ariaBusy EXCEPT ![i] = "true"]
  /\ FetchFrom([NewTask(<<i, "c", renderCycleID[i]>>) EXCEPT
                  !.url = src[i].url, !.frag = src[i].frag, !.type0 = type[i]],
               tasks, mq, TRUE)
  /\ UNCHANGED << src, width, type, attrs, renderPossible, loaded, shadowRoot, cache,
                  pendingDimensions, pdfVars, budget, page, measureCount, loadLog, supTo >>

\* #fetchAndRender that leaves #renderCyclePlanned as it is.
FetchAndRenderKeepsPlanned(i) ==
  /\ timers[i] > 0
  /\ mq = <<>>
  /\ timers' = [timers EXCEPT ![i] = @ - 1]
  /\ renderCycleID' = [renderCycleID EXCEPT ![i] = @ + 1]
  /\ renderCyclePlanned' = renderCyclePlanned
  /\ ariaBusy' = [ariaBusy EXCEPT ![i] = "true"]
  /\ FetchFrom([NewTask(<<i, "c", renderCycleID[i] + 1>>) EXCEPT
                  !.url = src[i].url, !.frag = src[i].frag, !.type0 = type[i]],
               tasks, mq, TRUE)
  /\ UNCHANGED << src, width, type, attrs, renderPossible, loaded, shadowRoot, cache,
                  pendingDimensions, pdfVars, budget, page, measureCount, loadLog, supTo >>

\* The timer set by the src or type setter fires: #fetchAndRender runs up to
\* the first await inside #fetch.
FetchAndRender(i) ==
  /\ timers[i] > 0
  /\ mq = <<>>
  /\ timers' = [timers EXCEPT ![i] = @ - 1]
  /\ renderCycleID' = [renderCycleID EXCEPT ![i] = @ + 1]
  /\ renderCyclePlanned' = [renderCyclePlanned EXCEPT ![i] = FALSE]
  /\ ariaBusy' = [ariaBusy EXCEPT ![i] = "true"]
  /\ FetchFrom([NewTask(<<i, "c", renderCycleID[i] + 1>>) EXCEPT
                  !.url = src[i].url, !.frag = src[i].frag, !.type0 = type[i]],
               tasks, mq, TRUE)
  /\ UNCHANGED << src, width, type, attrs, renderPossible, loaded, shadowRoot, cache,
                  pendingDimensions, pdfVars, budget, page, measureCount, loadLog, supTo >>

\* A caller of #fetch resumes from `await pendingFetch[docUrl]`.
FetchWaitResume(id) ==
  /\ mq # <<>> /\ Head(mq) = id
  /\ Task(id).pc = "fetchWait"
  /\ FetchFrom(Task(id), Others(id), Tail(mq), FALSE)
  /\ UNCHANGED << instVars, renderPossible, shadowRoot, cache, pendingDimensions,
                  pdfVars, timers, budget, page, measureCount, loadLog, supTo >>

\* The end of #fetch with a catch block that writes no cache entry.
FetchFinishDropsErrors(t, kind) ==
  LET rest == Others(t.id) IN
  /\ cache' = IF kind = "error" THEN cache
              ELSE [cache EXCEPT ![t.url] = [kind |-> kind, by |-> t.id, dims |-> <<0, 0>>]]
  /\ pendingFetch' = [pendingFetch EXCEPT ![t.url] = NoTask]
  /\ tasks' = Append(Woken(rest, t.id, "fetchWait"), [t EXCEPT !.pc = "afterFetch"])
  /\ mq' = Append(mq \o WaitersOf(rest, t.id, "fetchWait"), t.id)

\* The end of #fetch for the task that fetched: the cache entry is written,
\* then the finally block resolves the pending promise and deletes the marker.
FetchFinish(t, kind) ==
  LET rest == Others(t.id) IN
  /\ cache' = [cache EXCEPT ![t.url] = [kind |-> kind, by |-> t.id, dims |-> <<0, 0>>]]
  /\ pendingFetch' = [pendingFetch EXCEPT ![t.url] = NoTask]
  /\ tasks' = Append(Woken(rest, t.id, "fetchWait"), [t EXCEPT !.pc = "afterFetch"])
  /\ mq' = Append(mq \o WaitersOf(rest, t.id, "fetchWait"), t.id)

\* docUrl.match(/\.pdf$/) on the DeckURLs above.
MatchesPdf(u) == u = "b.pdf"

\* fetch(docUrl) settles.
FetchResponse(id, resp) ==
  /\ mq = <<>>
  /\ Live(id) /\ Task(id).pc = "fetching"
  /\ LET t == Task(id)
         i == InstOf(t)
         isPDF == type[i] = PdfType \/ resp = "pdf"
     IN
     IF resp \in {"neterr", "404"}
       THEN FetchFinish(t, "error") /\ UNCHANGED pdfVars
       ELSE /\ LoadPDFScripts(resp = "pdf" \/ (resp = "octet" /\ MatchesPdf(t.url)))
            /\ UNCHANGED << cache, pendingFetch >>
            /\ IF ~isPDF
                 THEN /\ tasks' = Append(Others(id), [t EXCEPT !.pc = "readingText"])
                      /\ mq' = mq
                 ELSE IF PDFScriptsLoaded' = "resolved"
                 THEN /\ tasks' = Append(Others(id), [t EXCEPT !.pc = "scriptsWait"])
                      /\ mq' = Append(mq, id)
                 ELSE /\ tasks' = Append(Others(id), [t EXCEPT !.pc = "scriptsWait", !.wait = LibPromise])
                      /\ mq' = mq
  /\ UNCHANGED << instVars, renderPossible, shadowRoot, pendingDimensions,
                  timers, budget, page, histVars >>

\* resp.text() settles; the deck is parsed and cached.
TextRead(id, ok) ==
  /\ mq = <<>>
  /\ Live(id) /\ Task(id).pc = "readingText"
  /\ FetchFinish(Task(id), IF ok THEN "shower-2014" ELSE "error")
  /\ UNCHANGED << instVars, renderPossible, shadowRoot, pendingDimensions,
                  pdfVars, timers, budget, page, histVars >>

\* A load or error event of a PDF.js script element.
ScriptEvent(ok) ==
  /\ mq = <<>>
  /\ PDFScriptsLoaded \in {"script1", "script2"}
  /\ PDFScriptsLoaded' =
       IF ~ok THEN "failed" ELSE IF PDFScriptsLoaded = "script1" THEN "script2" ELSE "resolved"
  /\ IF PDFScriptsLoaded' = "resolved"
       THEN /\ tasks' = Woken(tasks, LibPromise, "scriptsWait")
            /\ mq' = mq \o WaitersOf(tasks, LibPromise, "scriptsWait")
       ELSE UNCHANGED << tasks, mq >>
  /\ UNCHANGED << instVars, renderPossible, shadowRoot, cache, pendingFetch,
                  pendingDimensions, PDFScriptsHandled, timers, budget, page, histVars >>

\* #fetch resumes from `await PDFScriptsLoaded` and opens the document.
ScriptsResume(id) ==
  /\ mq # <<>> /\ Head(mq) = id
  /\ Task(id).pc = "scriptsWait"
  /\ tasks' = Append(Others(id), [Task(id) EXCEPT !.pc = "openingPdf"])
  /\ mq' = Tail(mq)
  /\ UNCHANGED << instVars, renderPossible, shadowRoot, cache, pendingFetch,
                  pendingDimensions, pdfVars, timers, budget, page, histVars >>

\* getDocument(docUrl).promise settles.
PdfOpened(id, ok) ==
  /\ mq = <<>>
  /\ Live(id) /\ Task(id).pc = "openingPdf"
  /\ FetchFinish(Task(id), IF ok THEN "pdf" ELSE "error")
  /\ UNCHANGED << instVars, renderPossible, shadowRoot, pendingDimensions,
                  pdfVars, timers, budget, page, histVars >>

----------------------------------------------------------------------------
\* Slide lookup

\* m[2] of slideId.match(/^(page=)?(\d+)$/); <<>> stands for no match.
PdfMatch(cs) ==
  LET prefix == << "p", "a", "g", "e", "=" >>
      rest == IF Len(cs) >= Len(prefix) /\ SubSeq(cs, 1, Len(prefix)) = prefix
                THEN SubSeq(cs, Len(prefix) + 1, Len(cs)) ELSE cs
  IN IF rest # <<>> /\ \A k \in DOMAIN rest : rest[k] \in Digits THEN rest ELSE <<>>

\* pageNumber = parseInt(m[2], 10).
PdfPageNumber(cs) == ParseInt(PdfMatch(cs))

\* doc.querySelectorAll('.slide')[slideNumber - 1] is an element.
SlideFound(cs) == ParseInt(cs) \in 1..NumSlides

\* pdf.getPage(pageNumber) fulfills.
PageFound(cs) == PdfPageNumber(cs) \in 1..NumPages

\* What a render puts in the shadow root.
Rendering(kind, by, s, w, dims, inflow) ==
  [kind |-> kind, by |-> by, url |-> s.url, frag |-> s.frag, w |-> w,
   dims |-> dims, inflow |-> inflow]

\* Lengths and factors are fractions <<numerator, denominator>>.
\* scale = width / cacheEntry.width, of scaleContent().
Scale(w, dims) == << w, dims[1] >>

\* scaleContent() with the width and the height of the cache entry swapped.
ScaledHeightSwapped(w, dims) == << dims[1] * w, dims[2] >>

\* height = cacheEntry.height * scale, of scaleContent().
ScaledHeight(w, dims) == << dims[2] * w, dims[1] >>

\* height = width / defaultAspectRatio, with defaultAspectRatio = 16/9.
DefaultHeight(w) == << w * 9, 16 >>

\* page.view[2] and page.view[3]: the width and the height of page n of the
\* document, in points.
PageWidthPt(n) == IF n = 1 THEN 612 ELSE 842
PageHeightPt(n) == IF n = 1 THEN 792 ELSE 595

\* The scale without the conversion from points to pixels.
PdfScaleInPoints(w, n) == << w, PageWidthPt(n) >>

\* scale = (width / page.view[2]) * 72/96.
PdfScale(w, n) == << w * 72, PageWidthPt(n) * 96 >>

\* What a slide of an HTML deck adds to its rendering: the height of the
\* <html> element and the factor of the transform of <body> (1 while there
\* is no transform).
SlideBox(slideId, height, scale) ==
  [slideNumber |-> ParseInt(slideId), height |-> height, scale |-> scale]

\* The markup the page author put inside each element: white space only in
\* the first, a paragraph in the second.
innerHTML == [i \in Insts |-> IF i = "i1" THEN " " ELSE "<p>deck</p>"]

\* A catch block that leaves out trim().
TrimNothing(markup) == markup

\* String.prototype.trim on the markups above.
Trim(markup) == IF markup \in {"", " "} THEN "" ELSE markup

\* A catch block that paints nothing.
FallbackBlank(i, w) ==
  [content |-> "", href |-> ""]
    @@ Rendering("blank", NoTask, src[i], w, <<0, 0>>, TRUE)

\* The catch block of #render: the trimmed inner markup, or a link to this.src.
Fallback(i, w) ==
  [content |-> IF Trim(innerHTML[i]) # "" THEN Trim(innerHTML[i]) ELSE "link",
   href |-> IF Trim(innerHTML[i]) # "" THEN "" ELSE src[i].url \o "#" \o src[i].frag]
    @@ Rendering("fallback", NoTask, src[i], w, <<0, 0>>, TRUE)

----------------------------------------------------------------------------
\* #render

\* The finally block of #render with a lock shared by every element (a
\* static field): releasing it releases every element's lock.
ReleaseShared(t) ==
  LET i == InstOf(t) IN
  renderPossible' =
    IF renderPossible[i] = t.id THEN [j \in Insts |-> NoTask]
    ELSE renderPossible

\* The finally block of #render: resolve() wakes the renders that awaited
\* the promise this render created.
Release(t) ==
  LET i == InstOf(t) IN
  renderPossible' =
    IF renderPossible[i] = t.id THEN [renderPossible EXCEPT ![i] = NoTask]
    ELSE renderPossible

\* #render returns (its lock released): a cycle goes on after
\* `await this.#render()`, a direct render is over.
RenderReturn(t, rest, q) ==
  IF IsCycle(t)
    THEN /\ tasks' = Append(rest, [t EXCEPT !.pc = "afterRender", !.holds = FALSE, !.wait = NoTask])
         /\ mq' = Append(q, t.id)
    ELSE /\ tasks' = rest
         /\ mq' = q

\* #calculateHTMLDimensions from its first line (or, for a caller resumed
\* from `await pendingDimensions[docUrl]`, from the width test) to its next
\* await.
DimensionsFrom(t, rest, q, fromTop) ==
  IF fromTop /\ pendingDimensions[t.url] # NoTask
    THEN /\ tasks' = Append(rest, [t EXCEPT !.pc = "dimWait", !.wait = pendingDimensions[t.url]])
         /\ mq' = q
         /\ UNCHANGED << pendingDimensions, measureCount >>
    ELSE IF cache[t.url].dims[1] # 0
    THEN /\ tasks' = Append(rest, [t EXCEPT !.pc = "afterDims", !.wait = NoTask])
         /\ mq' = Append(q, t.id)
         /\ UNCHANGED << pendingDimensions, measureCount >>
    ELSE /\ tasks' = Append(rest, [t EXCEPT !.pc = "stylesWait", !.wait = NoTask])
         /\ mq' = q
         /\ pendingDimensions' = [pendingDimensions EXCEPT ![t.url] = t.id]
         /\ measureCount' = [measureCount EXCEPT ![t.url] = @ + 1]

\* #render resumes from `await this.#renderPossible`: it takes the lock,
\* empties the shadow root and runs to its next await or to its end.
RenderStart(id) ==
  /\ mq # <<>> /\ Head(mq) = id
  /\ Task(id).pc = "renderWait"
  /\ LET i == InstOf(Task(id))
         s == src[i]
         e == cache[s.url]
         slideId == SlideId(s.frag)
         t == [Task(id) EXCEPT !.url = s.url, !.frag = s.frag, !.w = width[i], !.holds = TRUE]
         rest == Others(id)
         q == Tail(mq)
     IN
     CASE e.kind = "pdf" /\ slideId # Undefined /\ PdfMatch(slideId) # <<>> ->
            /\ shadowRoot' = [shadowRoot EXCEPT ![i] = <<>>]
            /\ renderPossible' = [renderPossible EXCEPT ![i] = id]
            /\ tasks' = Append(rest, [t EXCEPT !.pc = "getPage"])
            /\ mq' = q
            /\ UNCHANGED << pendingDimensions, measureCount >>
       [] e.kind = "shower-2014" /\ SlideFound(slideId) /\ e.dims[1] # 0 ->
            /\ shadowRoot' = [shadowRoot EXCEPT ![i] =
                 << SlideBox(slideId, ScaledHeight(t.w, e.dims), Scale(t.w, e.dims)) @@
                    Rendering("slide", NoTask, s, t.w, e.dims, TRUE) >>]
            /\ renderPossible' = [renderPossible EXCEPT ![i] = NoTask]
            /\ RenderReturn(t, rest, q)
            /\ UNCHANGED << pendingDimensions, measureCount >>
       [] e.kind = "shower-2014" /\ SlideFound(slideId) /\ e.dims[1] = 0 ->
            /\ shadowRoot' = [shadowRoot EXCEPT ![i] =
                 << SlideBox(slideId, DefaultHeight(t.w), <<1, 1>>) @@
                    Rendering("slide", id, s, t.w, <<0, 0>>, FALSE) >>]
            /\ renderPossible' = [renderPossible EXCEPT ![i] = id]
            /\ DimensionsFrom(t, rest, q, TRUE)
       [] OTHER ->
            /\ shadowRoot' = [shadowRoot EXCEPT ![i] = << Fallback(i, t.w) >>]
            /\ renderPossible' = [renderPossible EXCEPT ![i] = NoTask]
            /\ RenderReturn(t, rest, q)
            /\ UNCHANGED << pendingDimensions, measureCount >>
  /\ UNCHANGED << instVars, cache, pendingFetch, pdfVars, timers, budget, page,
                  fetchCount, loadLog, supTo >>

\* #calculateHTMLDimensions resumes from `await pendingDimensions[docUrl]`.
DimWaitResume(id) ==
  /\ mq # <<>> /\ Head(mq) = id
  /\ Task(id).pc = "dimWait"
  /\ DimensionsFrom(Task(id), Others(id), Tail(mq), FALSE)
  /\ UNCHANGED << instVars, renderPossible, shadowRoot, cache, pendingFetch,
                  pdfVars, timers, budget, page, fetchCount, loadLog, supTo >>

\* The stylesheets of the slide have loaded (or failed): the box of the slide
\* is read and recorded on the cache entry, the marker deleted, the waiters
\* released.
StylesLoaded(id, reading) ==
  /\ mq = <<>>
  /\ Live(id) /\ Task(id).pc = "stylesWait"
  /\ LET t == Task(id)
         rest == Others(id)
     IN
     /\ cache' = [cache EXCEPT ![t.url].dims = reading]
     /\ pendingDimensions' = [pendingDimensions EXCEPT ![t.url] = NoTask]
     /\ tasks' = Append(Woken(rest, id, "dimWait"), [t EXCEPT !.pc = "afterDims"])
     /\ mq' = Append(mq \o WaitersOf(rest, id, "dimWait"), id)
  /\ UNCHANGED << instVars, renderPossible, shadowRoot, pendingFetch, pdfVars,
                  timers, budget, page, histVars >>

\* scaleContent() on the slide this render built, if it is still in the
\* shadow root, and the slide moved back into the flow.  With a measured
\* width of 0 the scale is Infinity and the height NaN: the style engine
\* drops both declarations and the styles stay as they were.
ScaleContent(i, id, dims) ==
  [k \in DOMAIN shadowRoot[i] |->
     LET r == shadowRoot[i][k] IN
     IF r.by = id
       THEN [r EXCEPT !.dims = dims, !.inflow = TRUE, !.by = NoTask,
                      !.height = IF dims[1] = 0 THEN @ ELSE ScaledHeight(r.w, dims),
                      !.scale = IF dims[1] = 0 THEN @ ELSE Scale(r.w, dims)]
       ELSE r]

\* #render resumes from `await this.#calculateHTMLDimensions(...)`.
AfterDims(id) ==
  /\ mq # <<>> /\ Head(mq) = id
  /\ Task(id).pc = "afterDims"
  /\ LET t == Task(id)
         i == InstOf(t)
         rest == Others(id)
     IN
     /\ shadowRoot' = [shadowRoot EXCEPT ![i] = ScaleContent(i, id, cache[t.url].dims)]
     /\ Release(t)
     /\ RenderReturn(t, Woken(rest, id, "renderWait"),
                     Tail(mq) \o WaitersOf(rest, id, "renderWait"))
  /\ UNCHANGED << instVars, cache, pendingFetch, pendingDimensions, pdfVars,
                  timers, budget, page, histVars >>

\* pdf.getPage(pageNumber) settles: the page view is appended and drawn, or
\* the catch block paints the fallback; the finally block releases the lock
\* before draw() has finished.
GetPageDone(id) ==
  /\ mq = <<>>
  /\ Live(id) /\ Task(id).pc = "getPage"
  /\ LET t == Task(id)
         i == InstOf(t)
         rest == Others(id)
         woken == Woken(rest, id, "renderWait")
         q == mq \o WaitersOf(rest, id, "renderWait")
     IN
     /\ Release(t)
     /\ IF PageFound(SlideId(t.frag))
          THEN /\ shadowRoot' = [shadowRoot EXCEPT ![i] =
                    Append(@, [pageNumber |-> PdfPageNumber(SlideId(t.frag)),
                               scale |-> PdfScale(t.w, PdfPageNumber(SlideId(t.frag)))] @@
                              Rendering("page", NoTask, t, t.w, <<0, 0>>, TRUE))]
               /\ tasks' = Append(woken, [t EXCEPT !.pc = "drawing", !.holds = FALSE])
               /\ mq' = q
          ELSE /\ shadowRoot' = [shadowRoot EXCEPT ![i] = << Fallback(i, t.w) >>]
               /\ RenderReturn(t, woken, q)
  /\ UNCHANGED << instVars, cache, pendingFetch, pendingDimensions, pdfVars,
                  timers, budget, page, histVars >>

\* pdfPageView.draw() settles, and with it the promise #render returned; a
\* rejection rejects #fetchAndRender too.
DrawDone(id, ok) ==
  /\ mq = <<>>
  /\ Live(id) /\ Task(id).pc = "drawing"
  /\ IF ok THEN RenderReturn(Task(id), Others(id), mq)
          ELSE tasks' = Others(id) /\ mq' = mq
  /\ UNCHANGED << instVars, renderPossible, shadowRoot, cache, pendingFetch,
                  pendingDimensions, pdfVars, timers, budget, page, histVars >>

----------------------------------------------------------------------------
\* #fetchAndRender after its awaits

\* The staleness test without the test of #renderCyclePlanned.
StaleIdOnly(t) == renderCycleID[InstOf(t)] # CycleOf(t)

\* A cycle that never tests whether it is stale.
StaleNever(t) == FALSE

\* The staleness test without the comparison of cycle IDs.
StalePlannedOnly(t) == renderCyclePlanned[InstOf(t)]

\* The test that follows each await of #fetchAndRender.
Stale(t) ==
  renderCyclePlanned[InstOf(t)] \/ renderCycleID[InstOf(t)] # CycleOf(t)

\* #fetchAndRender without the test that follows `await this.#fetch()`.
AfterFetchAlwaysRenders(id) ==
  /\ mq # <<>> /\ Head(mq) = id
  /\ Task(id).pc = "afterFetch"
  /\ RenderEnter(Task(id), Others(id), Tail(mq))
  /\ UNCHANGED << instVars, renderPossible, shadowRoot, cache, pendingFetch,
                  pendingDimensions, pdfVars, timers, budget, page, histVars >>

\* #fetchAndRender resumes from `await this.#fetch()`.
AfterFetch(id) ==
  /\ mq # <<>> /\ Head(mq) = id
  /\ Task(id).pc = "afterFetch"
  /\ IF Stale(Task(id))
       THEN tasks' = Others(id) /\ mq' = Tail(mq)
       ELSE RenderEnter(Task(id), Others(id), Tail(mq))
  /\ UNCHANGED << instVars, renderPossible, shadowRoot, cache, pendingFetch,
                  pendingDimensions, pdfVars, timers, budget, page, histVars >>

\* #fetchAndRender resumes from `await this.#render()`: the settle point.
AfterRender(id) ==
  /\ mq # <<>> /\ Head(mq) = id
  /\ Task(id).pc = "afterRender"
  /\ LET t == Task(id)
         i == InstOf(t)
     IN
     IF Stale(t)
       THEN UNCHANGED << ariaBusy, loaded, loadLog >>
       ELSE /\ ariaBusy' = [ariaBusy EXCEPT ![i] = "false"]
            /\ loaded' = [loaded EXCEPT ![i] = TRUE]
            /\ loadLog' = [loadLog EXCEPT ![i] = Append(@, CycleOf(t))]
  /\ tasks' = Others(id)
  /\ mq' = Tail(mq)
  /\ UNCHANGED << src, width, type, attrs, renderCyclePlanned, renderCycleID,
                  renderPossible, shadowRoot, cache, pendingFetch,
                  pendingDimensions, pdfVars, timers, budget, page, fetchCount,
                  measureCount, supTo >>

----------------------------------------------------------------------------
TaskIds == { t.id : t \in Range(tasks) }

Next ==
  \/ \E i \in Insts, v \in SrcValues : SetSrc(i, v)
  \/ \E i \in Insts, v \in WidthValues : SetWidth(i, v)
  \/ \E i \in Insts, v \in TypeValues : SetType(i, v)
  \/ \E i \in Insts : FetchAndRender(i)
  \/ \E id \in TaskIds : FetchWaitResume(id)
  \/ \E id \in TaskIds, resp \in Responses : FetchResponse(id, resp)
  \/ \E id \in TaskIds, ok \in BOOLEAN : TextRead(id, ok)
  \/ \E ok \in BOOLEAN : ScriptEvent(ok)
  \/ \E id \in TaskIds : ScriptsResume(id)
  \/ \E id \in TaskIds, ok \in BOOLEAN : PdfOpened(id, ok)
  \/ \E id \in TaskIds : AfterFetch(id)
  \/ \E id \in TaskIds : RenderStart(id)
  \/ \E id \in TaskIds : DimWaitResume(id)
  \/ \E id \in TaskIds, reading \in Readings : StylesLoaded(id, reading)
  \/ \E id \in TaskIds : AfterDims(id)
  \/ \E id \in TaskIds : GetPageDone(id)
  \/ \E id \in TaskIds, ok \in BOOLEAN : DrawDone(id, ok)
  \/ \E id \in TaskIds : AfterRender(id)

\* Two instances on the page.
Spec == Init /\ [][Next]_vars

\* One instance on the page.
SpecOne == InitOne /\ [][Next]_vars

\* One instance on the page, whose src script sets to fragments of a deck;
\* its width is left alone, so that no render waits for the measurement of
\* another.
InitPdf == InitWith({"i1"}, FragSets)
NextPdf ==
  \/ \E i \in Insts, v \in PdfSrcValues : SetSrc(i, v)
  \/ \E i \in Insts : FetchAndRender(i)
  \/ \E id \in TaskIds : FetchWaitResume(id)
  \/ \E id \in TaskIds, resp \in Responses : FetchResponse(id, resp)
  \/ \E id \in TaskIds, ok \in BOOLEAN : TextRead(id, ok)
  \/ \E ok \in BOOLEAN : ScriptEvent(ok)
  \/ \E id \in TaskIds : ScriptsResume(id)
  \/ \E id \in TaskIds, ok \in BOOLEAN : PdfOpened(id, ok)
  \/ \E id \in TaskIds : AfterFetch(id)
  \/ \E id \in TaskIds : RenderStart(id)
  \/ \E id \in TaskIds, reading \in Readings : StylesLoaded(id, reading)
  \/ \E id \in TaskIds : AfterDims(id)
  \/ \E id \in TaskIds : GetPageDone(id)
  \/ \E id \in TaskIds, ok \in BOOLEAN : DrawDone(id, ok)
  \/ \E id \in TaskIds : AfterRender(id)
SpecPdf == InitPdf /\ [][NextPdf]_vars

\* One instance on the page, whose src script sets to fragments of an HTML
\* deck; its width is left alone.
NextHtml ==
  \/ \E i \in Insts, v \in HtmlSrcValues : SetSrc(i, v)
  \/ \E i \in Insts : FetchAndRender(i)
  \/ \E id \in TaskIds : FetchWaitResume(id)
  \/ \E id \in TaskIds, resp \in Responses : FetchResponse(id, resp)
  \/ \E id \in TaskIds, ok \in BOOLEAN : TextRead(id, ok)
  \/ \E ok \in BOOLEAN : ScriptEvent(ok)
  \/ \E id \in TaskIds : ScriptsResume(id)
  \/ \E id \in TaskIds, ok \in BOOLEAN : PdfOpened(id, ok)
  \/ \E id \in TaskIds : AfterFetch(id)
  \/ \E id \in TaskIds : RenderStart(id)
  \/ \E id \in TaskIds, reading \in Readings : StylesLoaded(id, reading)
  \/ \E id \in TaskIds : AfterDims(id)
  \/ \E id \in TaskIds : GetPageDone(id)
  \/ \E id \in TaskIds, ok \in BOOLEAN : DrawDone(id, ok)
  \/ \E id \in TaskIds : AfterRender(id)
SpecHtml == InitPdf /\ [][NextHtml]_vars

\* One instance on the page, whose src, width and height attributes script
\* sets.
InitBox == InitWith({"i1"}, BoxSets)
NextBox ==
  \/ \E i \in Insts, v \in BoxSrcValues : SetSrc(i, v)
  \/ \E i \in Insts, cs \in BoxWidths : SetWidthAttribute(i, cs)
  \/ \E i \in Insts, cs \in BoxHeights : SetHeightAttribute(i, cs)
  \/ \E i \in Insts : FetchAndRender(i)
  \/ \E id \in TaskIds : FetchWaitResume(id)
  \/ \E id \in TaskIds, resp \in Responses : FetchResponse(id, resp)
  \/ \E id \in TaskIds, ok \in BOOLEAN : TextRead(id, ok)
  \/ \E ok \in BOOLEAN : ScriptEvent(ok)
  \/ \E id \in TaskIds : ScriptsResume(id)
  \/ \E id \in TaskIds, ok \in BOOLEAN : PdfOpened(id, ok)
  \/ \E id \in TaskIds : AfterFetch(id)
  \/ \E id \in TaskIds : RenderStart(id)
  \/ \E id \in TaskIds : DimWaitResume(id)
  \/ \E id \in TaskIds, reading \in Readings : StylesLoaded(id, reading)
  \/ \E id \in TaskIds : AfterDims(id)
  \/ \E id \in TaskIds : GetPageDone(id)
  \/ \E id \in TaskIds, ok \in BOOLEAN : DrawDone(id, ok)
  \/ \E id \in TaskIds : AfterRender(id)
SpecBox == InitBox /\ [][NextBox]_vars

\* One instance on the page, whose properties and width attribute script
\* sets, also to values that do not parse.  The server answers with an HTML
\* document or with status 404, so that no step of a PDF deck is taken.
AttrResponses == {"404", "html"}
InitAttr == InitWith({"i1"}, AttrSets)
NextAttr ==
  \/ \E i \in Insts, v \in AttrSrcValues : SetSrc(i, v)
  \/ \E i \in Insts, v \in AttrWidthValues : SetWidth(i, v)
  \/ \E i \in Insts, cs \in AttrWidthTexts : SetWidthAttribute(i, cs)
  \/ \E i \in Insts : RemoveWidthAttribute(i)
  \/ \E i \in Insts, v \in TypeValues : SetType(i, v)
  \/ \E i \in Insts : FetchAndRender(i)
  \/ \E id \in TaskIds : FetchWaitResume(id)
  \/ \E id \in TaskIds, resp \in AttrResponses : FetchResponse(id, resp)
  \/ \E id \in TaskIds, ok \in BOOLEAN : TextRead(id, ok)
  \/ \E id \in TaskIds : AfterFetch(id)
  \/ \E id \in TaskIds : RenderStart(id)
  \/ \E id \in TaskIds : DimWaitResume(id)
  \/ \E id \in TaskIds, reading \in Readings : StylesLoaded(id, reading)
  \/ \E id \in TaskIds : AfterDims(id)
  \/ \E id \in TaskIds : AfterRender(id)
SpecAttr == InitAttr /\ [][NextAttr]_vars

\* The steps in which every script load and every page draw succeeds.
NextLive ==
  \/ \E i \in Insts, v \in SrcValues : SetSrc(i, v)
  \/ \E i \in Insts, v \in WidthValues : SetWidth(i, v)
  \/ \E i \in Insts, v \in TypeValues : SetType(i, v)
  \/ \E i \in Insts : FetchAndRender(i)
  \/ \E id \in TaskIds : FetchWaitResume(id)
  \/ \E id \in TaskIds, resp \in Responses : FetchResponse(id, resp)
  \/ \E id \in TaskIds, ok \in BOOLEAN : TextRead(id, ok)
  \/ ScriptEvent(TRUE)
  \/ \E id \in TaskIds : ScriptsResume(id)
  \/ \E id \in TaskIds, ok \in BOOLEAN : PdfOpened(id, ok)
  \/ \E id \in TaskIds : AfterFetch(id)
  \/ \E id \in TaskIds : RenderStart(id)
  \/ \E id \in TaskIds : DimWaitResume(id)
  \/ \E id \in TaskIds, reading \in Readings : StylesLoaded(id, reading)
  \/ \E id \in TaskIds : AfterDims(id)
  \/ \E id \in TaskIds : GetPageDone(id)
  \/ \E id \in TaskIds : DrawDone(id, TRUE)
  \/ \E id \in TaskIds : AfterRender(id)

\* One instance on the page; every timer fires, every microtask runs, and
\* every fetch, stylesheet load, script load and page draw completes.  The
\* steps of the event loop are the steps that are no assignment by script.
SpecLive ==
  InitLive /\ [][NextLive]_vars /\ WF_vars(budget' = budget /\ NextLive)

\* The same, except that a PDF.js script element may fire `error`: every
\* script load ends, by a load or by an error event.
NextFail == NextLive \/ ScriptEvent(FALSE)
SpecFail ==
  InitLive /\ [][NextFail]_vars /\ WF_vars(budget' = budget /\ NextFail)

----------------------------------------------------------------------------
\* Properties

FetchPhase == {"fetchWait", "fetching", "readingText", "scriptsWait", "openingPdf", "afterFetch"}
InFlight == {"fetching", "readingText", "scriptsWait", "openingPdf"}
TasksAt(pcs, u) == { t \in Range(tasks) : t.pc \in pcs /\ t.url = u }
Holders(i) == { t \in Range(tasks) : InstOf(t) = i /\ t.holds }
Last(s) == s[Len(s)]
Occurrences(s, x) == Cardinality({ k \in DOMAIN s : s[k] = x })

\* The task id takes this step: it moves to another program point or ends.
Acted(id) == Live(id) /\ (~Live(id)' \/ Task(id)'.pc # Task(id).pc)

\* What the shadow root of an instance shows: its renderings in the flow.
Shown(sr) ==
  { [kind |-> sr[k].kind, url |-> sr[k].url, frag |-> sr[k].frag, w |-> sr[k].w] :
      k \in { j \in DOMAIN sr : sr[j].inflow } }
NewlyShown(i) == Shown(shadowRoot'[i]) \ Shown(shadowRoot[i])

\* The slides of deck u that instances show.
SlidesOf(u) ==
  { r \in UNION { Range(shadowRoot[i]) : i \in Insts } :
      r.kind = "slide" /\ r.url = u /\ r.inflow }

\* A cycle of instance i is planned or has not run to its end.
Unsettled(i) ==
  renderCyclePlanned[i] \/ \E t \in Range(tasks) : InstOf(t) = i /\ IsCycle(t)

\* The last started cycle of instance i has dispatched load, once.
Settled(i) ==
  /\ ~Unsettled(i)
  /\ renderCycleID[i] > 0
  /\ Occurrences(loadLog[i], renderCycleID[i]) = 1
  /\ Last(loadLog[i]) = renderCycleID[i]
  /\ ariaBusy[i] = "false" /\ loaded[i]

\* No cycle of instance i is planned or running and no render is pending.
Quiescent(i) ==
  /\ ~renderCyclePlanned[i] /\ timers[i] = 0
  /\ \A t \in Range(tasks) : InstOf(t) # i

\* C1: for every DeckURL the network fetch is issued at most once over the
\* whole run, exactly once as soon as a cycle for it has started, and no two
\* fetches for it are in flight together.
C1_SingleFetch ==
  \A u \in Urls :
    /\ fetchCount[u] <= 1
    /\ Cardinality(TasksAt(InFlight, u)) <= 1
    /\ (TasksAt(FetchPhase, u) # {} \/ cache[u].kind # "none") => fetchCount[u] = 1

\* Two instances have run a cycle for the same DeckURL to its settle point,
\* with one fetch.
C1_Witness ==
  /\ src["i1"].url = src["i2"].url
  /\ loadLog["i1"] # <<>> /\ loadLog["i2"] # <<>>
  /\ fetchCount[src["i1"].url] = 1

\* C2: at most one execution of #render of an instance is between taking the
\* #renderPossible lock and releasing it.
C2_OneRenderAtATime == \A i \in Insts : Cardinality(Holders(i)) <= 1

\* C3: load is dispatched (with aria-busy false and loaded true) only by the
\* cycle whose ID is the current cycle ID, with no further cycle planned, and
\* never by a cycle that a src or type change superseded before it settled.
C3_LoadOnlyByCurrentCycle ==
  [][\A i \in Insts :
       loadLog'[i] # loadLog[i] =>
         /\ Last(loadLog'[i]) = renderCycleID[i]
         /\ ~renderCyclePlanned[i] /\ timers[i] = 0
         /\ Last(loadLog'[i]) > supTo[i]
         /\ ariaBusy'[i] = "false" /\ loaded'[i]]_vars

\* A second cycle has dispatched load after the first one was superseded.
C3_Witness == loadLog["i1"] = <<2>> /\ supTo["i1"] = 1

\* C4: when every fetch, script load, stylesheet load and page draw
\* completes, an instance with a cycle planned or running eventually settles:
\* its last started cycle has dispatched load exactly once, aria-busy is false
\* and loaded is true; and it stays settled until src or type changes.
C4_EventuallySettles ==
  /\ \A i \in Insts : Unsettled(i) ~> Settled(i)
  /\ [][\A i \in Insts :
          (Settled(i) /\ src'[i] = src[i] /\ type'[i] = type[i]) => Settled(i)']_vars

\* The instance has settled on its second cycle after all the changes.
C4_Witness == Settled("i1") /\ renderCycleID["i1"] = 2 /\ budget = 0

\* What a src or type assignment that changes the value does, and how a cycle
\* starts: nothing of a cycle runs in the step of the assignment, which leaves
\* exactly one cycle planned; the cycle starts on the timer's tick, takes the
\* next cycle ID and fetches the DeckURL of the src in force.
Scheduling(i) ==
  /\ (src'[i] # src[i] \/ type'[i] # type[i]) =>
       /\ tasks' = tasks /\ mq' = mq
       /\ renderCycleID' = renderCycleID /\ ariaBusy' = ariaBusy
       /\ fetchCount' = fetchCount /\ shadowRoot' = shadowRoot
       /\ renderCyclePlanned'[i] /\ timers'[i] = 1
  /\ renderCycleID'[i] # renderCycleID[i] =>
       /\ renderCycleID'[i] = renderCycleID[i] + 1
       /\ timers[i] = 1 /\ timers'[i] = 0 /\ ~renderCyclePlanned'[i]
       /\ \E t \in Range(tasks') :
            /\ t.id = <<i, "c", renderCycleID'[i]>>
            /\ t.url = src[i].url
            /\ t.pc \in {"fetchWait", "fetching", "afterFetch"}

\* The steps of a cycle that read type (a response with status 200 is
\* classified) and src (the render takes the lock).
Classifies(t) ==
  /\ IsCycle(t) /\ t.pc = "fetching" /\ Live(t.id)'
  /\ Task(t.id)'.pc \in {"readingText", "scriptsWait"}
TakesLock(t) == IsCycle(t) /\ t.pc = "renderWait" /\ Acted(t.id)

\* C5 as stated: a src or type assignment runs no cycle synchronously, the
\* assignments made before the tick start exactly one cycle, and the cycle
\* uses the src and the type that were in force when it started.
C5_UsesValuesAtStart ==
  [][\A i \in Insts :
       /\ Scheduling(i)
       /\ \A t \in Range(tasks) :
            /\ (InstOf(t) = i /\ Classifies(t)) => type[i] = t.type0
            /\ (InstOf(t) = i /\ TakesLock(t)) =>
                 src[i] = [url |-> t.url, frag |-> t.frag]]_vars

\* C5, amended: a src or type assignment runs no cycle synchronously, the
\* assignments made before the tick start exactly one cycle, and the cycle
\* fetches the DeckURL of the src in force when it starts; it classifies the
\* response with the type in force when the response arrives (a PDF hint set
\* meanwhile keeps the body from being read as HTML) and renders the src in
\* force when it takes the render lock.
C5_NextTickOneCycle ==
  [][\A i \in Insts :
       /\ Scheduling(i)
       /\ \A t \in Range(tasks) :
            /\ (InstOf(t) = i /\ Classifies(t) /\ type[i] = PdfType) =>
                 Task(t.id)'.pc = "scriptsWait"
            /\ (InstOf(t) = i /\ TakesLock(t) /\ Live(t.id)') =>
                 src[i] = [url |-> Task(t.id)'.url, frag |-> Task(t.id)'.frag]]_vars

\* One cycle has started after two assignments (src and type) made before
\* its tick, and it has been given the lock.
C5_Witness ==
  /\ renderCycleID["i1"] = 1 /\ timers["i1"] = 0 /\ supTo["i1"] = 0
  /\ src["i1"] # BaseSrc /\ type["i1"] = PdfType
  /\ budget = PageSets - 2
  /\ \E t \in Range(tasks) : IsCycle(t) /\ t.holds

\* C6: the measurement of a DeckURL runs exactly once: at most one measurement
\* is in flight, a measurement is started at most once, and every slide of the
\* deck that is shown is scaled with the dimensions on the cache entry.
C6_SingleMeasurement ==
  \A u \in Urls :
    /\ measureCount[u] <= 1
    /\ Cardinality(TasksAt({"stylesWait"}, u)) <= 1
    /\ \A r \in SlidesOf(u) : r.dims = cache[u].dims

\* C7: a cache entry, once written, is never replaced by another entry, never
\* changes kind and is never deleted.
C7_CacheCreateOnce ==
  [][\A u \in Urls :
       cache[u].kind # "none" =>
         cache'[u].kind = cache[u].kind /\ cache'[u].by = cache[u].by]_vars

\* An instance has settled on a deck that the other instance fetched.
C7_Witness ==
  \E i \in Insts :
    /\ loadLog[i] # <<>>
    /\ cache[src[i].url].kind # "none"
    /\ cache[src[i].url].by[1] # i

\* The steps of a width-only change: the assignment, and the steps of the
\* render it called.
WidthOnlyStep ==
  \/ width' # width
  \/ \E t \in Range(tasks) : ~IsCycle(t) /\ Acted(t.id)

\* What a width-only change leaves alone, the cache apart.
NoFetchNoCycle ==
  /\ fetchCount' = fetchCount /\ pendingFetch' = pendingFetch
  /\ timers' = timers /\ renderCyclePlanned' = renderCyclePlanned
  /\ renderCycleID' = renderCycleID
  /\ ariaBusy' = ariaBusy /\ loaded' = loaded /\ loadLog' = loadLog

\* C8 as stated: a width-only change on an instance that has started a cycle
\* issues no fetch, schedules no cycle, leaves the cycle ID, aria-busy and
\* loaded unchanged, dispatches no load and leaves the cache and the
\* pending-fetch registry unchanged.
C8_WidthLeavesCacheUnchanged ==
  [][WidthOnlyStep => (NoFetchNoCycle /\ cache' = cache)]_vars

\* C8, amended: as above, but of the cache it leaves unchanged which entries
\* exist and their kind; the render it calls may record the intrinsic
\* dimensions on the entry of an HTML deck.
C8_WidthRendersWithoutFetch ==
  [][WidthOnlyStep =>
       /\ NoFetchNoCycle
       /\ \A u \in Urls :
            cache'[u].kind = cache[u].kind /\ cache'[u].by = cache[u].by]_vars

\* A settled instance has been rendered again at another width.
C8_Witness ==
  /\ loadLog["i1"] = <<1>> /\ renderCycleID["i1"] = 1 /\ Quiescent("i1")
  /\ width["i1"] = 500
  /\ \E r \in Range(shadowRoot["i1"]) : r.w = 500 /\ r.kind # "fallback"

\* C9: a cycle that a src change superseded before it settled never brings a
\* rendering of another src than the current one into view.
C9_NoStaleRendering ==
  [][\A t \in Range(tasks) :
       (IsCycle(t) /\ CycleOf(t) <= supTo[InstOf(t)] /\ Acted(t.id)) =>
         \A r \in NewlyShown(InstOf(t)) :
           r.url = src[InstOf(t)].url /\ r.frag = src[InstOf(t)].frag]_vars

\* C10: a quiescent instance that has run a cycle holds exactly one rendering,
\* that of the latest src at the latest width.
C10_LastScheduledWins ==
  \A i \in Insts :
    (Quiescent(i) /\ renderCycleID[i] > 0) =>
      /\ Len(shadowRoot[i]) = 1
      /\ shadowRoot[i][1].url = src[i].url
      /\ shadowRoot[i][1].frag = src[i].frag
      /\ shadowRoot[i][1].w = width[i]
      /\ shadowRoot[i][1].inflow

\* The step the task t is about to take ends in the catch block of #render:
\* the cache entry is an error, the slide or the page is not in the deck, or
\* the fragment is no PDF page reference.
RenderFails(t) ==
  LET s == src[InstOf(t)]
      e == cache[s.url]
  IN
  \/ /\ t.pc = "renderWait"
     /\ \/ e.kind = "error"
        \/ e.kind = "shower-2014" /\ ~SlideFound(SlideId(s.frag))
        \/ e.kind = "pdf" /\ PdfMatch(SlideId(s.frag)) = <<>>
  \/ t.pc = "getPage" /\ ~PageFound(SlideId(t.frag))

OnlyFallback(sr) == Len(sr) = 1 /\ sr[1].kind = "fallback"

\* C11: a render of a cycle that meets a fetch failure or an extraction
\* failure paints the fallback and returns to the cycle, and a cycle that
\* reaches its settle point over a fallback, no newer cycle being planned or
\* started, sets aria-busy false and loaded true and dispatches load once.
C11_FailureStillSettles ==
  [][\A t \in Range(tasks) :
       (IsCycle(t) /\ Acted(t.id)) =>
         LET i == InstOf(t) IN
         /\ RenderFails(t) =>
              /\ OnlyFallback(shadowRoot'[i])
              /\ Live(t.id)' /\ Task(t.id)'.pc = "afterRender"
         /\ (t.pc = "afterRender" /\ ~Stale(t) /\ OnlyFallback(shadowRoot[i])) =>
              /\ ariaBusy'[i] = "false" /\ loaded'[i]
              /\ loadLog'[i] = Append(loadLog[i], CycleOf(t))
              /\ Occurrences(loadLog'[i], CycleOf(t)) = 1]_vars

\* A first cycle has settled over the fallback, after a failed fetch on one
\* instance and after a page that the document does not have on the other.
C11_Witness ==
  /\ loadLog["i1"] = <<1>> /\ loadLog["i2"] = <<1>>
  /\ OnlyFallback(shadowRoot["i1"]) /\ OnlyFallback(shadowRoot["i2"])
  /\ cache[src["i1"].url].kind = "error"
  /\ cache[src["i2"].url].kind = "pdf"
  /\ ariaBusy["i1"] = "false" /\ loaded["i1"]

\* The task t takes a step that ends in the catch block of #render; a render
\* that finds no cache entry for its src ends there too.
PaintsFallback(t) ==
  /\ Acted(t.id)
  /\ \/ RenderFails(t)
     \/ t.pc = "renderWait" /\ cache[src[InstOf(t)].url].kind = "none"

\* C12: every fallback render leaves the fallback alone in the shadow root,
\* and the fallback is the inner markup of the host element when that is not
\* blank, else a link whose target is the resolved src, fragment included.
C12_FallbackContent ==
  [][\A t \in Range(tasks) :
       PaintsFallback(t) =>
         LET i == InstOf(t)
             f == shadowRoot'[i][1]
         IN
         /\ OnlyFallback(shadowRoot'[i])
         /\ IF innerHTML[i] \in {"", " "}
              THEN f.content = "link" /\ f.href = src[i].url \o "#" \o src[i].frag
              ELSE f.content = innerHTML[i] /\ f.href = ""]_vars

\* The element without markup shows a link to its src and the element with
\* markup shows its markup.
C12_Witness ==
  /\ OnlyFallback(shadowRoot["i1"]) /\ OnlyFallback(shadowRoot["i2"])
  /\ shadowRoot["i1"][1].content = "link"
  /\ shadowRoot["i1"][1].href = "a#2"
  /\ shadowRoot["i2"][1].content = "<p>deck</p>"

\* C13: once an error entry is cached for a DeckURL, no step issues a fetch
\* for that DeckURL and the entry stays as it is.
C13_FailedFetchIsTerminal ==
  [][\A u \in Urls :
       cache[u].kind = "error" =>
         fetchCount'[u] = fetchCount[u] /\ cache'[u] = cache[u]]_vars

\* The fetch of a deck failed and its cycle settled, src was set to another
\* slide of the deck, and the second cycle has settled without a second fetch.
C13_Witness ==
  /\ cache["a"].kind = "error" /\ fetchCount["a"] = 1
  /\ src["i1"] = [url |-> "a", frag |-> "2"]
  /\ loadLog["i1"] = << 1, 2 >>

\* C14: no failure escapes.  A call of #fetchAndRender ends only by its own
\* return statements (the stale exit after the fetch, the end after the
\* render), never by a rejection in the middle of a step it awaits; and a
\* failed load of the PDF library leaves no call waiting for the library.
C14_NoFailureEscapes ==
  [][/\ \A t \in Range(tasks) :
          (IsCycle(t) /\ Live(t.id) /\ ~Live(t.id)') =>
            t.pc \in {"afterFetch", "afterRender"}
     /\ PDFScriptsLoaded' = "failed" =>
          \A t \in Range(tasks') : t.wait # LibPromise]_vars

\* The responses with status 200, by content type.
Status200 == {"html", "pdf", "octet"}

\* C15: a response with status 200 is loaded as PDF (the PDF library is
\* awaited and the document opened) exactly when the type hint of the
\* instance is application/pdf, or the content type is application/pdf, or
\* the content type is application/octet and the DeckURL ends in .pdf; else
\* its text is read and parsed as an HTML deck.
C15_Classification ==
  [][\A id \in TaskIds, resp \in Status200 :
       FetchResponse(id, resp) =>
         LET t == Task(id) IN
         /\ Task(id)'.pc \in {"scriptsWait", "readingText"}
         /\ Task(id)'.pc = "scriptsWait" <=>
              \/ type[InstOf(t)] = PdfType
              \/ resp = "pdf"
              \/ resp = "octet" /\ MatchesPdf(t.url)]_vars

\* C16: the render of a cycle that started with the type hint application/pdf
\* and still has it goes through the PDF path: the entry it finds for its
\* deck was loaded as a PDF document (or is the error of that load), never an
\* HTML deck, whichever instance fetched the deck and whatever hint that
\* instance had.
C16_HintForcesPdfPath ==
  [][\A t \in Range(tasks) :
       (/\ IsCycle(t) /\ t.pc = "renderWait" /\ Acted(t.id)
        /\ t.type0 = PdfType /\ type[InstOf(t)] = PdfType) =>
         /\ cache[src[InstOf(t)].url].kind # "shower-2014"
         /\ \A r \in Range(shadowRoot'[InstOf(t)]) : r.kind # "slide"]_vars

\* The cycle with the current cycle ID has not run to its end.
CurrentCycleRuns(i) ==
  \E t \in Range(tasks) : InstOf(t) = i /\ IsCycle(t) /\ CycleOf(t) = renderCycleID[i]

\* C17: aria-busy is true while the current cycle runs; the start of a cycle
\* sets it true; once true it becomes false only in the step in which the
\* current cycle settles, which is the step that dispatches load with loaded
\* true; and once false it stays false until the next cycle starts.
C17_AriaBusy ==
  /\ [](\A i \in Insts : CurrentCycleRuns(i) => ariaBusy[i] = "true")
  /\ [][\A i \in Insts :
          /\ renderCycleID'[i] # renderCycleID[i] => ariaBusy'[i] = "true"
          /\ (ariaBusy[i] = "true" /\ ariaBusy'[i] # "true") =>
               /\ ariaBusy'[i] = "false" /\ loaded'[i]
               /\ loadLog'[i] = Append(loadLog[i], renderCycleID[i])
               /\ ~renderCyclePlanned[i]
          /\ loadLog'[i] # loadLog[i] => ariaBusy'[i] = "false" /\ loaded'[i]
          /\ (ariaBusy[i] = "false" /\ ariaBusy'[i] # "false") =>
               renderCycleID'[i] = renderCycleID[i] + 1]_vars

\* Two cycles have settled one after the other and aria-busy is false.
C17_Witness == loadLog["i1"] = <<1, 2>> /\ ariaBusy["i1"] = "false"

\* C18: loaded is false as long as no cycle of the instance has settled, it
\* becomes true in the step in which a cycle settles (the current cycle
\* reaching its end with no cycle planned) and in no other step, and it never
\* goes back to false.
C18_Loaded ==
  /\ [](\A i \in Insts : loaded[i] <=> loadLog[i] # <<>>)
  /\ [][\A i \in Insts :
          /\ loaded[i] => loaded'[i]
          /\ (~loaded[i] /\ loaded'[i]) =>
               /\ ~renderCyclePlanned[i]
               /\ loadLog'[i] = << renderCycleID[i] >>
          /\ \A t \in Range(tasks) :
               (/\ InstOf(t) = i /\ IsCycle(t) /\ t.pc = "afterRender" /\ Acted(t.id)
                /\ CycleOf(t) = renderCycleID[i] /\ ~renderCyclePlanned[i]) =>
                 loaded'[i]]_vars

\* loaded is true while the second cycle of the instance runs.
C18_Witness ==
  /\ loaded["i1"] /\ renderCycleID["i1"] = 2
  /\ CurrentCycleRuns("i1") /\ ariaBusy["i1"] = "true"

\* The calls of #fetchAndRender of instance i that have not returned.
CyclesOf(ts, i) == { t \in Range(ts) : InstOf(t) = i /\ IsCycle(t) }

\* C19: the cycle ID of an instance never decreases; it grows, by exactly
\* one, in the steps that start a cycle and in no other step, and the cycle
\* started carries the new ID; so the cycles of an instance carry IDs that
\* differ and are at most the current cycle ID.
C19_CycleIds ==
  /\ [](\A i \in Insts :
          /\ \A t \in CyclesOf(tasks, i) : CycleOf(t) \in 1..renderCycleID[i]
          /\ \A k, l \in DOMAIN tasks : tasks[k].id = tasks[l].id => k = l)
  /\ [][\A i \in Insts :
          /\ renderCycleID'[i] \in {renderCycleID[i], renderCycleID[i] + 1}
          /\ renderCycleID'[i] # renderCycleID[i] <=> timers'[i] < timers[i]
          /\ renderCycleID'[i] # renderCycleID[i] <=>
               CyclesOf(tasks', i) # CyclesOf(tasks, i) /\ CyclesOf(tasks, i) \subseteq CyclesOf(tasks', i)
          /\ \A t \in CyclesOf(tasks', i) :
               (\A u \in CyclesOf(tasks, i) : u.id # t.id) => CycleOf(t) = renderCycleID'[i]]_vars

\* Two cycles of an instance run together, with the IDs 1 and 2.
C19_Witness ==
  /\ renderCycleID["i1"] = 2
  /\ Live(<<"i1", "c", 1>>) /\ Live(<<"i1", "c", 2>>)

\* The fragment is `page=N` or the bare integer N, for N = n.
RefersToPage(frag, n) ==
  /\ frag # NoFrag
  /\ Chars(frag) \in { Numeral(n), << "p", "a", "g", "e", "=" >> \o Numeral(n) }
PageNumbers == 0..99
Accepted(frag) == \E n \in PageNumbers : RefersToPage(frag, n)

\* C20: for a PDF deck, a render goes on to ask for a page exactly when the
\* fragment is `page=N` or a bare integer N; the page view it then appends is
\* that of page N, when the document has a page N; and every other
\* fragment, a missing fragment and a page number outside the document leave
\* the fallback, and nothing else, in the shadow root.
C20_PdfFragment ==
  /\ [](\A i \in Insts : \A k \in DOMAIN shadowRoot[i] :
          shadowRoot[i][k].kind = "page" =>
            \E n \in 1..NumPages :
              /\ RefersToPage(shadowRoot[i][k].frag, n)
              /\ shadowRoot[i][k].pageNumber = n)
  /\ [][\A t \in Range(tasks) :
          LET i == InstOf(t) IN
          /\ (t.pc = "renderWait" /\ Acted(t.id) /\ cache[src[i].url].kind = "pdf") =>
               IF Accepted(src[i].frag)
                 THEN Task(t.id)'.pc = "getPage" /\ Task(t.id)'.frag = src[i].frag
                 ELSE OnlyFallback(shadowRoot'[i])
          /\ (t.pc = "getPage" /\ Acted(t.id)) =>
               IF \E n \in 1..NumPages : RefersToPage(t.frag, n)
                 THEN /\ Last(shadowRoot'[i]).kind = "page"
                      /\ RefersToPage(t.frag, Last(shadowRoot'[i]).pageNumber)
                 ELSE OnlyFallback(shadowRoot'[i])]_vars

\* The position, in the ordered slide sequence of the deck, of the element
\* whose identifier is the fragment; 0 when no element has it.
SlideWithId(frag) == IF frag = "cover" THEN 1 ELSE 0

\* The fragment is the integer n.
IsInteger(frag, n) == frag # NoFrag /\ Chars(frag) = Numeral(n)

\* The slide the fragment names: the element with that identifier, else the
\* n-th element when the fragment is the integer n; 0 when neither resolves.
SlideNamed(frag) ==
  IF SlideWithId(frag) # 0 THEN SlideWithId(frag)
  ELSE IF \E n \in 1..NumSlides : IsInteger(frag, n)
         THEN CHOOSE n \in 1..NumSlides : IsInteger(frag, n)
         ELSE 0

\* C21: a render of an HTML deck puts in the shadow root the element whose
\* identifier equals the fragment if there is one, otherwise the N-th slide
\* when the fragment is an integer N, and the fallback when neither
\* resolves.
C21_SlideLookup ==
  [][\A t \in Range(tasks) :
       LET i == InstOf(t) IN
       (t.pc = "renderWait" /\ Acted(t.id) /\ cache[src[i].url].kind = "shower-2014") =>
         IF SlideNamed(src[i].frag) # 0
           THEN /\ Len(shadowRoot'[i]) = 1
                /\ shadowRoot'[i][1].kind = "slide"
                /\ shadowRoot'[i][1].slideNumber = SlideNamed(src[i].frag)
           ELSE OnlyFallback(shadowRoot'[i])]_vars

\* Fractions with positive denominators.
FracLeq(a, b) == a[1] * b[2] <= b[1] * a[2]
FracEq(a, b) == a[1] * b[2] = b[1] * a[2]
FracMin(a, b) == IF FracLeq(a, b) THEN a ELSE b

\* The renderings of kind k that the step puts in the flow of instance i.
PutInFlow(i, k) ==
  { r \in Range(shadowRoot'[i]) :
      /\ r.kind = k /\ r.inflow
      /\ r \notin Range(shadowRoot[i]) }

\* The size of what a rendering shows: the intrinsic size times the scale
\* (a page is laid out at 96/72 pixels per point).
ContentSize(r) ==
  IF r.kind = "slide"
    THEN << << r.dims[1] * r.scale[1], r.scale[2] >>,
            << r.dims[2] * r.scale[1], r.scale[2] >> >>
    ELSE << << PageWidthPt(r.pageNumber) * r.scale[1] * 96, r.scale[2] * 72 >>,
            << PageHeightPt(r.pageNumber) * r.scale[1] * 96, r.scale[2] * 72 >> >>

\* The target box of instance i for a render at width w: w and the height
\* attribute.
BoxOf(i, w) == << << w, 1 >>, << ParseInt(attrs[i].height), 1 >> >>

\* C22: when the width and height attributes give a box (Bw, Bh), a slide
\* of intrinsic size (Iw, Ih) is put in the flow at the scale
\* min(Bw/Iw, Bh/Ih), and what a slide or a page shows exceeds the box on
\* neither axis.
C22_ContainFit ==
  [][\A i \in Insts :
       (attrs[i].width # Absent /\ attrs[i].height # Absent) =>
         /\ \A r \in PutInFlow(i, "slide") :
              r.dims[1] # 0 =>
                FracEq(r.scale, FracMin(<< BoxOf(i, r.w)[1][1], r.dims[1] >>,
                                        << BoxOf(i, r.w)[2][1], r.dims[2] >>))
         /\ \A r \in PutInFlow(i, "slide") \cup PutInFlow(i, "page") :
              (r.kind = "slide" => r.dims[1] # 0) =>
                /\ FracLeq(ContentSize(r)[1], BoxOf(i, r.w)[1])
                /\ FracLeq(ContentSize(r)[2], BoxOf(i, r.w)[2])]_vars

SlidesIn(sr) == { r \in Range(sr) : r.kind = "slide" }

AssignsWidth(i, cs) ==
  \/ \E v \in AttrWidthValues : StringOf(v) = cs /\ SetWidth(i, v)
  \/ cs \in AttrWidthTexts /\ SetWidthAttribute(i, cs)

WidthTexts == { StringOf(v) : v \in AttrWidthValues } \cup AttrWidthTexts

\* C24: an assignment of the width, through the property or through the
\* attribute, of the value the width was last given (the one the attribute
\* holds) starts no render, changes nothing in the shadow root and leaves the
\* width as it is, whatever value the setter accepts.
C24_SameWidthIsIdempotent ==
  [][\A i \in Insts : \A cs \in WidthTexts :
       (AssignsWidth(i, cs) /\ attrs[i].width = cs) =>
         /\ tasks' = tasks /\ mq' = mq
         /\ shadowRoot' = shadowRoot
         /\ width' = width]_vars

\* The string starts with no number.
HoldsNoNumber(cs) == cs = <<>> \/ Head(cs) \notin Digits \cup {"+", "-"}

\* C25: once the width has been given a value that holds no number (a
\* non-numeric string, the empty string, the null of a removed attribute),
\* the width property is the default width, and a render that takes the
\* lock renders at the default width.
C25_UnparseableWidthIsDefault ==
  /\ [](\A i \in Insts :
          (attrs[i].width # Absent /\ HoldsNoNumber(attrs[i].width)) =>
            width[i] = defaultWidth)
  /\ [][\A t \in Range(tasks) :
          LET i == InstOf(t) IN
          (/\ t.pc = "renderWait" /\ Acted(t.id) /\ Live(t.id)'
           /\ attrs[i].width # Absent /\ HoldsNoNumber(attrs[i].width)) =>
            Task(t.id)'.w = defaultWidth]_vars

\* A cycle of instance i for the base URI is planned, is running as its
\* current cycle, or has painted the shadow root.
CycleForBase(i) ==
  \/ renderCyclePlanned[i]
  \/ \E t \in CyclesOf(tasks, i) : CycleOf(t) = renderCycleID[i] /\ t.url = BaseSrc.url
  \/ \E r \in Range(shadowRoot[i]) : r.url = BaseSrc.url

\* C26: an assignment of the empty string or of a string that is no URL to
\* src makes the base URI the source, and a cycle for it proceeds: one is
\* planned by the assignment unless the instance already runs or has run
\* its cycle for the base URI; this also when the value is the first one
\* the instance receives.
C26_EmptySrcRunsCycle ==
  [][\A i \in Insts : \A v \in {EmptyValue, BadUrl} :
       SetSrc(i, v) => src'[i] = BaseSrc /\ CycleForBase(i)']_vars

\* The width and type halves of the reflection: the attribute holds the
\* string form of the value, the width property the integer a numeral
\* denotes, the type property the value as given.
ReflectsWidthAndType(i) ==
  /\ \A cs \in WidthTexts :
       AssignsWidth(i, cs) =>
         /\ attrs'[i].width = cs
         /\ (cs # <<>> /\ \A k \in DOMAIN cs : cs[k] \in Digits) =>
              Numeral(width'[i]) = cs
  /\ \A v \in TypeValues :
       SetType(i, v) => type'[i] = v /\ attrs'[i].type = v

\* The src property is the absolute URL the written value v refers to.
IsAbsoluteOf(s, v) ==
  /\ s.url \in Urls
  /\ v.url \in {s.url, "./" \o s.url}
  /\ s.frag = v.frag

-----------------------------------------------------------------------------
\* C28

\* The task id as the step leaves it.
TaskAfter(id) == CHOOSE t \in Range(tasks') : t.id = id

\* The fragments that name page n of a PDF document.
NamesPage(frag, n) ==
  Chars(frag) \in { Numeral(n), << "p", "a", "g", "e", "=" >> \o Numeral(n) }

\* The width, in pixels, of page r as the page view draws it: the width of
\* the page in points times the scale times 96/72.
DrawnWidth(r) == << PageWidthPt(r.pageNumber) * r.scale[1] * 4, r.scale[2] * 3 >>

-----------------------------------------------------------------------------
\* C29

\* The callers of #fetch that wait for the pending fetch of deck u.
WaitingFor(u) ==
  { t \in Range(tasks) : t.pc = "fetchWait" /\ t.wait = pendingFetch[u] }

\* C29: the step that removes the pending-fetch marker of a deck leaves a
\* cache entry for it and wakes every caller that waited on the marker; a
\* caller that resumes from the wait finds the entry and returns without
\* fetching and without registering a marker.
C29_EntryBeforeRelease ==
  [][/\ \A u \in Urls :
          pendingFetch[u] # NoTask /\ pendingFetch'[u] = NoTask =>
            /\ cache'[u].kind # "none"
            /\ \A t \in WaitingFor(u) :
                 /\ t.id \in Range(mq')
                 /\ TaskAfter(t.id).wait = NoTask
     /\ \A id \in TaskIds :
          FetchWaitResume(id) =>
            /\ cache[Task(id).url].kind # "none"
            /\ TaskAfter(id).pc = "afterFetch"
            /\ fetchCount' = fetchCount /\ pendingFetch' = pendingFetch]_vars

\* A caller that waited on the marker of a fetch that failed has been
\* released and is about to resume: the marker is gone and the entry is
\* there.
C29_Witness ==
  \E t \in Range(tasks) :
    /\ t.pc = "fetchWait" /\ t.id \in Range(mq)
    /\ pendingFetch[t.url] = NoTask
    /\ cache[t.url].kind = "error" /\ fetchCount[t.url] = 1

-----------------------------------------------------------------------------
\* C30

\* A fetch of deck u has registered its marker and not removed it, or a
\* caller of #fetch waits on that marker.
Blocked(u) == pendingFetch[u] # NoTask \/ TasksAt({"fetchWait"}, u) # {}

\* C30: when every fetch, script load and document load ends, by success
\* or by failure, every pending-fetch marker that is registered is
\* eventually removed and every caller waiting on it eventually resumes.
C30_MarkerEventuallyRemoved == \A u \in Urls : Blocked(u) ~> ~Blocked(u)

-----------------------------------------------------------------------------
\* C31

\* C31: a render that takes the lock finds a cache entry for the DeckURL of
\* the src of its instance, and it paints the fallback only for an error
\* entry or for a slide or page reference that leads nowhere.
C31_RenderFindsEntry ==
  [][\A id \in TaskIds :
       RenderStart(id) =>
         LET t == Task(id)
             i == InstOf(t)
         IN /\ cache[src[i].url].kind # "none"
            /\ OnlyFallback(shadowRoot'[i]) => RenderFails(t)]_vars

-----------------------------------------------------------------------------
\* C32

\* C32: a cycle that resumes from its fetch while a newer cycle is planned
\* or has started ends there: it calls no render (no task is added, the
\* shadow root is untouched), leaves aria-busy and loaded as they are,
\* dispatches no load, and leaves the cache, with the entry its fetch wrote,
\* as it is.
C32_StaleCycleAbandons ==
  [][\A t \in Range(tasks) :
       (t.pc = "afterFetch" /\ Stale(t) /\ Acted(t.id)) =>
         /\ TaskIds' = TaskIds \ {t.id}
         /\ shadowRoot' = shadowRoot
         /\ ariaBusy' = ariaBusy /\ loaded' = loaded /\ loadLog' = loadLog
         /\ cache' = cache /\ cache[t.url].kind # "none"]_vars

\* The first cycle of the instance fetched the deck and ended without a
\* render and without a load event: the entry it wrote is in the cache, the
\* shadow root is empty and aria-busy is still true, while the second cycle
\* is planned and no render of the instance is under way.
C32_Witness ==
  /\ cache["a"].by = <<"i1", "c", 1>> /\ ~Live(<<"i1", "c", 1>>)
  /\ renderCycleID["i1"] = 1 /\ renderCyclePlanned["i1"]
  /\ \A t \in Range(tasks) : InstOf(t) # "i1"
  /\ shadowRoot["i1"] = <<>> /\ loadLog["i1"] = <<>>
  /\ ariaBusy["i1"] = "true"

-----------------------------------------------------------------------------
\* C33

\* C33: a width assignment made while no cycle of the instance has started
\* or while a cycle is planned stores the width and starts no render; and
\* the render of a cycle works with the width the instance has when it
\* takes the lock, which is the latest one.
C33_WidthWaitsForCycle ==
  [][/\ \A i \in Insts : \A v \in WidthValues \cup AttrWidthValues :
          (SetWidth(i, v) /\ (renderCycleID[i] = 0 \/ renderCyclePlanned[i])) =>
            /\ tasks' = tasks /\ mq' = mq /\ shadowRoot' = shadowRoot
            /\ width'[i] = ParseInt(StringOf(v))
     /\ \A t \in Range(tasks) :
          (IsCycle(t) /\ RenderStart(t.id)) =>
            /\ \A r \in Range(shadowRoot'[InstOf(t)]) : r.w = width[InstOf(t)]
            /\ t.id \in TaskIds' => TaskAfter(t.id).w = width[InstOf(t)]]_vars

\* The width was set to 500 before the first cycle of the instance rendered,
\* and that cycle has put a slide 500 pixels wide into the flow; script has
\* assigned the src and the width and nothing else.
C33_Witness ==
  /\ renderCycleID["i1"] = 1 /\ budget = PageSets - 2
  /\ width["i1"] = 500
  /\ Len(shadowRoot["i1"]) = 1
  /\ shadowRoot["i1"][1].kind = "slide" /\ shadowRoot["i1"][1].w = 500
  /\ shadowRoot["i1"][1].inflow
  /\ loadLog["i1"] = <<1>>

-----------------------------------------------------------------------------
\* C34

\* Where a render is at work on the shadow root: between taking the lock
\* and the end of its last step, the draw of the PDF page included.
AtWork == {"getPage", "stylesWait", "dimWait", "afterDims", "drawing"}
Locked == AtWork \ {"drawing"}

\* C34: the lock of an instance is held only by a render that is still at
\* work, so that no finished render blocks a queued one; and no render
\* takes the lock while another render of the instance is still at work,
\* drawing its PDF page included.
C34_LockCoversRender ==
  /\ [](\A i \in Insts :
          renderPossible[i] # NoTask =>
            Live(renderPossible[i]) /\ Task(renderPossible[i]).pc \in Locked)
  /\ [][\A id \in TaskIds :
          RenderStart(id) =>
            \A t \in Range(tasks) :
              (InstOf(t) = InstOf(Task(id)) /\ t.id # id) => t.pc \notin AtWork]_vars

-----------------------------------------------------------------------------
\* C35

\* The slide r is scaled from the dimensions recorded on its cache entry.
ScaledFromEntry(r) ==
  LET dims == cache[r.url].dims
  IN /\ dims[1] # 0 /\ r.dims = dims
     /\ FracEq(r.scale, << r.w, dims[1] >>)
     /\ FracEq(r.height, << dims[2] * r.w, dims[1] >>)

\* C35: every slide of an HTML deck that is in the flow of an instance is
\* scaled from the dimensions recorded on the cache entry of its deck; a
\* slide whose deck has no recorded dimensions is off-screen.
C35_InFlowMeansScaled ==
  \A i \in Insts : \A r \in Range(shadowRoot[i]) :
    (r.kind = "slide" /\ r.inflow) => ScaledFromEntry(r)

-----------------------------------------------------------------------------
\* C36

\* C36: an instance has at most one cycle scheduled and not started, and
\* #renderCyclePlanned is true exactly when there is one.
C36_PlannedIffScheduled ==
  \A i \in Insts :
    /\ timers[i] \in {0, 1}
    /\ renderCyclePlanned[i] <=> timers[i] = 1

\* The src and then the type of the instance were changed before any cycle
\* started: one cycle is scheduled.
C36_Witness ==
  /\ src["i1"].url = "a" /\ type["i1"] = PdfType
  /\ renderCycleID["i1"] = 0
  /\ renderCyclePlanned["i1"] /\ timers["i1"] = 1

-----------------------------------------------------------------------------
\* C37

\* How far the load of the PDF library has come.
LoadRank(st) ==
  CASE st = "pending" -> 0 [] st = "script1" -> 1 [] st = "script2" -> 2
    [] st \in {"resolved", "failed"} -> 3

\* C37: the load of the PDF library starts at most once on a page, with the
\* first request of any instance, and runs forward from there: the first
\* script, the second, then done or failed for good; and a PDF document is
\* opened, and a PDF entry cached, only when the load has completed.
C37_LibraryLoadedOnce ==
  /\ [][/\ LoadRank(PDFScriptsLoaded') >= LoadRank(PDFScriptsLoaded)
        /\ LoadRank(PDFScriptsLoaded) = 3 => PDFScriptsLoaded' = PDFScriptsLoaded
        /\ (PDFScriptsLoaded # "script1" /\ PDFScriptsLoaded' = "script1") =>
             ~PDFScriptsHandled /\ PDFScriptsHandled'
        /\ PDFScriptsHandled => PDFScriptsHandled']_vars
  /\ [](/\ PDFScriptsHandled <=> PDFScriptsLoaded # "pending"
        /\ (\/ \E t \in Range(tasks) : t.pc = "openingPdf"
            \/ \E u \in Urls : cache[u].kind = "pdf") =>
             PDFScriptsLoaded = "resolved")

\* Both instances show a PDF deck each: two documents were opened after the
\* one load of the library.
C37_Witness ==
  /\ PDFScriptsLoaded = "resolved"
  /\ cache["a"].kind = "pdf" /\ cache["b.pdf"].kind = "pdf"
  /\ cache["a"].by[1] # cache["b.pdf"].by[1]

-----------------------------------------------------------------------------
\* C38

\* C38: the step that records the reading of a measurement on a cache entry
\* is the first such step for that entry, whatever the reading is, and the
\* dimensions of an entry, once they are other than 0, never change.
C38_DimensionsWrittenOnce ==
  [][/\ \A id \in TaskIds : \A reading \in Readings :
          StylesLoaded(id, reading) => measureCount[Task(id).url] = 1
     /\ \A u \in Urls :
          cache[u].dims # <<0, 0>> => cache'[u].dims = cache[u].dims]_vars

----------------------------------------------------------------------------
\* C39: instances are isolated except through the shared cache and the two
\* pending registries: no action on one instance (a src, width or type
\* change, the start of a cycle, a step of one of its cycles or renders)
\* changes another instance's src, width, type, attributes, cycle ID,
\* cycle-planned flag, render lock, shadow content, aria-busy or loaded
\* flag; the load events of the PDF library change no instance's.
InstState(i) ==
  << src[i], width[i], type[i], attrs[i], renderCycleID[i],
     renderCyclePlanned[i], renderPossible[i], shadowRoot[i], ariaBusy[i],
     loaded[i], loadLog[i] >>

StepOfTask(id) ==
  \/ FetchWaitResume(id)
  \/ \E resp \in Responses : FetchResponse(id, resp)
  \/ \E ok \in BOOLEAN : TextRead(id, ok)
  \/ ScriptsResume(id)
  \/ \E ok \in BOOLEAN : PdfOpened(id, ok)
  \/ AfterFetch(id)
  \/ RenderStart(id)
  \/ DimWaitResume(id)
  \/ \E reading \in Readings : StylesLoaded(id, reading)
  \/ AfterDims(id)
  \/ GetPageDone(id)
  \/ \E ok \in BOOLEAN : DrawDone(id, ok)
  \/ AfterRender(id)

ActionOn(i) ==
  \/ \E v \in SrcValues : SetSrc(i, v)
  \/ \E v \in WidthValues : SetWidth(i, v)
  \/ \E v \in TypeValues : SetType(i, v)
  \/ FetchAndRender(i)
  \/ \E id \in TaskIds : InstOf(Task(id)) = i /\ StepOfTask(id)

C39_InstancesIsolated ==
  [][/\ \A a \in Insts : ActionOn(a) =>
          \A b \in Insts \ {a} : InstState(b)' = InstState(b)
     /\ (\E ok \in BOOLEAN : ScriptEvent(ok)) =>
          \A b \in Insts : InstState(b)' = InstState(b)]_vars

\* Both elements have rendered a slide of the same deck, fetched once by
\* the first of them, and both have settled.
C39_Witness ==
  /\ \A i \in Insts :
       /\ src[i].url = "a" /\ loaded[i] /\ ariaBusy[i] = "false"
       /\ renderPossible[i] = NoTask
       /\ Len(shadowRoot[i]) = 1 /\ shadowRoot[i][1].kind = "slide"
       /\ shadowRoot[i][1].inflow
  /\ fetchCount["a"] = 1 /\ cache["a"].by[1] = "i1"

----------------------------------------------------------------------------
\* The calls of a setter that one assignment makes: the call itself and, when
\* the attribute differs from the value the setter is about to write, the
\* call attributeChangedCallback makes with the written attribute as its
\* value, and so on.  MaxNest cuts the count off.
MaxNest == 3

RECURSIVE SrcSetterCalls(_, _, _)
SrcSetterCalls(value, attribute, fuel) ==
  LET written == IF Unparseable(value) THEN EmptyValue ELSE value IN
  IF attribute = written \/ fuel = 0 THEN 1
  ELSE 1 + SrcSetterCalls(written, written, fuel - 1)

RECURSIVE WidthSetterCalls(_, _, _)
WidthSetterCalls(value, attribute, fuel) ==
  LET cs == StringOf(value) IN
  IF attribute = cs \/ fuel = 0 THEN 1
  ELSE 1 + WidthSetterCalls(Str(cs), cs, fuel - 1)

RECURSIVE TypeSetterCalls(_, _, _)
TypeSetterCalls(value, attribute, fuel) ==
  IF attribute = value \/ fuel = 0 THEN 1
  ELSE 1 + TypeSetterCalls(value, value, fuel - 1)

\* C40: the re-entry between a property setter and attributeChangedCallback
\* terminates: one assignment to src, width or type, from script or from the
\* attribute side, causes at most one nested setter call, schedules at most
\* one cycle and triggers at most one direct render.
WidthAssigned(i, value, attribute) ==
  /\ WidthSetterCalls(value, attribute, MaxNest) <= 2
  /\ timers' = timers
  /\ Len(tasks') <= Len(tasks) + 1

C40_OneNestedCallOneRender ==
  [][\A i \in Insts :
       /\ \A v \in AttrSrcValues : SetSrc(i, v) =>
            /\ SrcSetterCalls(v, attrs[i].src, MaxNest) <= 2
            /\ timers'[i] <= timers[i] + 1 /\ tasks' = tasks
       /\ \A v \in TypeValues : SetType(i, v) =>
            /\ TypeSetterCalls(v, attrs[i].type, MaxNest) <= 2
            /\ timers'[i] <= timers[i] + 1 /\ tasks' = tasks
       /\ \A v \in AttrWidthValues : SetWidth(i, v) =>
            WidthAssigned(i, v, attrs[i].width)
       /\ \A cs \in AttrWidthTexts : SetWidthAttribute(i, cs) =>
            WidthAssigned(i, Str(cs), cs)
       /\ RemoveWidthAttribute(i) => WidthAssigned(i, NullValue, Absent)]_vars

====
